---- MODULE Spec2Model ----
(***************************************************************************)
(* Model of robotoff.utils.text.flashtext.KeywordProcessor: a character    *)
(* trie with incremental mutation, exact lookup, enumeration and keyword   *)
(* extraction.                                                             *)
(*                                                                         *)
(* A Python str is a sequence of characters; a character is a TLA+ string  *)
(* naming one code point ("a", "A", " ", "U0130" for LATIN CAPITAL LETTER  *)
(* I WITH DOT ABOVE, "U0307" for COMBINING DOT ABOVE).                     *)
(* A trie node (a Python dict) is identified by the path of characters     *)
(* that leads to it from the root; keyword_trie_dict maps every existing   *)
(* node to its ordered list of keys (dicts keep insertion order) and to    *)
(* the value stored under the "_keyword_" key.                             *)
(***************************************************************************)
EXTENDS Integers, Sequences, FiniteSets, TLC

VARIABLES keyword_trie_dict, terms_in_trie, case_sensitive,
          non_word_boundaries, registered, last, frame, concurrent

vars == <<keyword_trie_dict, terms_in_trie, case_sensitive,
          non_word_boundaries, registered, last, frame, concurrent>>

(* the matcher's own fields: trie, count and configuration *)
matcher == <<keyword_trie_dict, terms_in_trie, case_sensitive,
             non_word_boundaries>>

---------------------------------------------------------------------------
(* Bounds of the model *)

MaxKeywordLen == 2

MaxTerms == 2

MaxSentenceLen == 2

MaxCost == 1

---------------------------------------------------------------------------
(* Characters and strings *)

KEYWORD == "_keyword_"

LATIN_CAPITAL_LETTER_I_WITH_DOT_ABOVE == "U0130"

COMBINING_DOT_ABOVE == "U0307"

None == <<"None">>

EmptyStr == <<>>

(* characters offered as input to the operations *)
InputChars == {"a", "A", LATIN_CAPITAL_LETTER_I_WITH_DOT_ABOVE}

(* string.ascii_lowercase, string.ascii_uppercase and string.digits *)
ascii_lowercase ==
    <<"a", "b", "c", "d", "e", "f", "g", "h", "i", "j", "k", "l", "m",
      "n", "o", "p", "q", "r", "s", "t", "u", "v", "w", "x", "y", "z">>

ascii_uppercase ==
    <<"A", "B", "C", "D", "E", "F", "G", "H", "I", "J", "K", "L", "M",
      "N", "O", "P", "Q", "R", "S", "T", "U", "V", "W", "X", "Y", "Z">>

digits == <<"0", "1", "2", "3", "4", "5", "6", "7", "8", "9">>

(* string.digits + string.ascii_letters + "_" *)
DefaultNonWordBoundaries ==
    {digits[i] : i \in 1..Len(digits)}
    \cup {ascii_lowercase[i] : i \in 1..Len(ascii_lowercase)}
    \cup {ascii_uppercase[i] : i \in 1..Len(ascii_uppercase)}
    \cup {"_"}

(* "U0007" names the BEL character *)
white_space_chars == {".", "\t", "\n", "U0007", " ", ","}

RECURSIVE StringsUpTo(_, _)
StringsUpTo(chars, n) ==
    IF n = 0 THEN {<<>>}
    ELSE LET shorter == StringsUpTo(chars, n - 1)
         IN  shorter \cup {Append(s, c) : s \in shorter, c \in chars}

Keywords == StringsUpTo(InputChars, MaxKeywordLen)

CleanNames == {None, EmptyStr, <<"x">>}

Sentences == StringsUpTo(InputChars, MaxSentenceLen)

(* the lower-case and the upper-case form of the ASCII letters *)
lower_of == [c \in {ascii_uppercase[i] : i \in 1..Len(ascii_uppercase)} |->
               ascii_lowercase[CHOOSE i \in 1..Len(ascii_uppercase) :
                                 ascii_uppercase[i] = c]]

upper_of == [c \in {ascii_lowercase[i] : i \in 1..Len(ascii_lowercase)} |->
               ascii_uppercase[CHOOSE i \in 1..Len(ascii_lowercase) :
                                 ascii_lowercase[i] = c]]

(* str.lower() of one character: "U0130" is the only character whose       *)
(* lower-cased form is two characters long                                 *)
lower_char(c) ==
    IF c \in DOMAIN lower_of THEN <<lower_of[c]>>
    ELSE IF c = LATIN_CAPITAL_LETTER_I_WITH_DOT_ABOVE
    THEN <<"i", COMBINING_DOT_ABOVE>>
    ELSE <<c>>

(* str.upper() of one character *)
upper_char(c) == IF c \in DOMAIN upper_of THEN <<upper_of[c]>> ELSE <<c>>

RECURSIVE lower(_)
lower(s) == IF s = <<>> THEN <<>> ELSE lower_char(Head(s)) \o lower(Tail(s))

---------------------------------------------------------------------------
(* Trie nodes *)

Root == <<>>

EmptyDict == [keys |-> <<>>, clean_name |-> None]

Range(s) == {s[i] : i \in 1..Len(s)}

HasKey(d, node, key) == key \in Range(d[node].keys)

IsPrefix(p, s) == Len(p) <= Len(s) /\ SubSeq(s, 1, Len(p)) = p

RemoveKey(keys, key) == SelectSeq(keys, LAMBDA k : k # key)

(* dict.setdefault(letter, {}) on the dict at `node` *)
setdefault(d, node, letter) ==
    IF HasKey(d, node, letter) THEN d
    ELSE LET child == Append(node, letter)
         IN  [p \in DOMAIN d \cup {child} |->
                IF p = child THEN EmptyDict
                ELSE IF p = node THEN [d[p] EXCEPT !.keys = Append(@, letter)]
                ELSE d[p]]

(* dict.pop(key) on the dict at `node`: popping a character drops the      *)
(* whole sub-dict stored under it                                          *)
pop(d, node, key) ==
    IF key = KEYWORD
    THEN [d EXCEPT ![node] = [keys |-> RemoveKey(@.keys, KEYWORD),
                              clean_name |-> None]]
    ELSE LET child == Append(node, key)
             kept  == {p \in DOMAIN d : ~IsPrefix(child, p)}
         IN  [p \in kept |->
                IF p = node THEN [d[p] EXCEPT !.keys = RemoveKey(@, key)]
                ELSE d[p]]

(* the case folding applied to every keyword and looked-up word *)
fold(word) == IF case_sensitive THEN word ELSE lower(word)

(* the loop shared by __contains__ and __getitem__: number of leading      *)
(* characters of `word` for which a trie edge exists                       *)
RECURSIVE len_covered(_, _, _)
len_covered(d, word, n) ==
    IF n < Len(word) /\ HasKey(d, SubSeq(word, 1, n), word[n + 1])
    THEN len_covered(d, word, n + 1)
    ELSE n

contains_in(d, word) ==
    LET covered == len_covered(d, word, 0)
        current_dict == SubSeq(word, 1, covered)
    IN  HasKey(d, current_dict, KEYWORD) /\ covered = Len(word)

contains(word) == contains_in(keyword_trie_dict, fold(word))

getitem_in(d, word) ==
    LET covered == len_covered(d, word, 0)
        current_dict == SubSeq(word, 1, covered)
    IN  IF HasKey(d, current_dict, KEYWORD) /\ covered = Len(word)
        THEN d[current_dict].clean_name
        ELSE None

(* a lookup that does not lower-case the word *)
get_keyword_no_lower(word) == getitem_in(keyword_trie_dict, word)

get_keyword(word) == getitem_in(keyword_trie_dict, fold(word))

---------------------------------------------------------------------------
(* Mutation *)

RECURSIVE setdefault_path(_, _, _)
setdefault_path(d, keyword, n) ==
    IF n = Len(keyword) THEN d
    ELSE setdefault_path(setdefault(d, SubSeq(keyword, 1, n), keyword[n + 1]),
                         keyword, n + 1)

(* the variants of __setitem__ below each differ from it in one place *)
setitem_with(d, terms, keyword, clean_name_arg, default_folded, check_value, count_every_add, status_every_add) ==
    LET clean_name == IF clean_name_arg = None /\ keyword # EmptyStr
                      THEN (IF default_folded THEN fold(keyword) ELSE keyword)
                      ELSE clean_name_arg
    IN  IF keyword # EmptyStr /\ clean_name # None
           /\ (check_value => clean_name # EmptyStr)
        THEN LET kw   == fold(keyword)
                 d1   == setdefault_path(d, kw, 0)
                 new  == ~HasKey(d1, kw, KEYWORD)
                 d2   == [d1 EXCEPT ![kw] =
                            [keys |-> IF new THEN Append(@.keys, KEYWORD)
                                      ELSE @.keys,
                             clean_name |-> clean_name]]
             IN  [trie |-> d2,
                  terms |-> IF new \/ count_every_add THEN terms + 1 ELSE terms,
                  status |-> new \/ status_every_add]
        ELSE [trie |-> d, terms |-> terms, status |-> FALSE]

(* the keyword is lower-cased before it becomes the default clean name *)
setitem_default_after_lower(d, terms, keyword, clean_name_arg) ==
    setitem_with(d, terms, keyword, clean_name_arg, TRUE, TRUE, FALSE, FALSE)

(* an empty clean name is stored *)
setitem_accepts_empty_clean_name(d, terms, keyword, clean_name_arg) ==
    setitem_with(d, terms, keyword, clean_name_arg, FALSE, FALSE, FALSE, FALSE)

(* the count is incremented by every add *)
setitem_counts_every_add(d, terms, keyword, clean_name_arg) ==
    setitem_with(d, terms, keyword, clean_name_arg, FALSE, TRUE, TRUE, FALSE)

(* the status is True for every add that stores a value *)
setitem_status_of_every_add(d, terms, keyword, clean_name_arg) ==
    setitem_with(d, terms, keyword, clean_name_arg, FALSE, TRUE, FALSE, TRUE)

(* __setitem__: the resulting trie, count and status *)
setitem(d, terms, keyword, clean_name_arg) ==
    LET clean_name == IF clean_name_arg = None /\ keyword # EmptyStr
                      THEN keyword ELSE clean_name_arg
    IN  IF keyword # EmptyStr /\ clean_name # None /\ clean_name # EmptyStr
        THEN LET kw   == fold(keyword)
                 d1   == setdefault_path(d, kw, 0)
                 new  == ~HasKey(d1, kw, KEYWORD)
                 d2   == [d1 EXCEPT ![kw] =
                            [keys |-> IF new THEN Append(@.keys, KEYWORD)
                                      ELSE @.keys,
                             clean_name |-> clean_name]]
             IN  [trie |-> d2,
                  terms |-> IF new THEN terms + 1 ELSE terms,
                  status |-> new]
        ELSE [trie |-> d, terms |-> terms, status |-> FALSE]

(* the removal loop of __delitem__ over the reversed character_trie_list:  *)
(* entry n > Len(keyword) is (_keyword_, terminal dict), entry n >= 1 is   *)
(* (keyword[n], dict at keyword[1..n-1])                                   *)
(* the removal loop without its break: every entry of the list is popped  *)
RECURSIVE remove_path_without_break(_, _, _)
remove_path_without_break(d, keyword, n) ==
    IF n = 0 THEN d
    ELSE LET key_to_remove == IF n > Len(keyword) THEN KEYWORD ELSE keyword[n]
             dict_pointer  == SubSeq(keyword, 1, n - 1)
         IN  remove_path_without_break(pop(d, dict_pointer, key_to_remove),
                                       keyword, n - 1)

(* the removal loop breaking without the pop when the dict has other keys *)
RECURSIVE remove_path_break_without_pop(_, _, _)
remove_path_break_without_pop(d, keyword, n) ==
    IF n = 0 THEN d
    ELSE LET key_to_remove == IF n > Len(keyword) THEN KEYWORD ELSE keyword[n]
             dict_pointer  == SubSeq(keyword, 1, n - 1)
         IN  IF Len(d[dict_pointer].keys) = 1
             THEN remove_path_break_without_pop(
                      pop(d, dict_pointer, key_to_remove), keyword, n - 1)
             ELSE d

(* a removal that pops "_keyword_" and prunes nothing *)
remove_path_without_pruning(d, keyword, n) ==
    pop(d, SubSeq(keyword, 1, n - 1), KEYWORD)

RECURSIVE remove_path(_, _, _)
remove_path(d, keyword, n) ==
    IF n = 0 THEN d
    ELSE LET key_to_remove == IF n > Len(keyword) THEN KEYWORD ELSE keyword[n]
             dict_pointer  == SubSeq(keyword, 1, n - 1)
         IN  IF Len(d[dict_pointer].keys) = 1
             THEN remove_path(pop(d, dict_pointer, key_to_remove), keyword, n - 1)
             ELSE pop(d, dict_pointer, key_to_remove)

(* __delitem__ without the test that the dict reached holds "_keyword_" *)
delitem_ignores_terminal(d, terms, keyword_arg) ==
    IF keyword_arg # EmptyStr
    THEN LET keyword == fold(keyword_arg)
             found   == len_covered(d, keyword, 0) = Len(keyword)
         IN  IF found /\ d[keyword].keys # <<>>
             THEN [trie |-> remove_path(d, keyword, Len(keyword) + 1),
                   terms |-> terms - 1,
                   status |-> TRUE]
             ELSE [trie |-> d, terms |-> terms, status |-> FALSE]
    ELSE [trie |-> d, terms |-> terms, status |-> FALSE]

(* __delitem__ that leaves the count as it is *)
delitem_keeps_count(d, terms, keyword_arg) ==
    IF keyword_arg # EmptyStr
    THEN LET keyword == fold(keyword_arg)
             found   == len_covered(d, keyword, 0) = Len(keyword)
         IN  IF found /\ d[keyword].keys # <<>> /\ HasKey(d, keyword, KEYWORD)
             THEN [trie |-> remove_path(d, keyword, Len(keyword) + 1),
                   terms |-> terms,
                   status |-> TRUE]
             ELSE [trie |-> d, terms |-> terms, status |-> FALSE]
    ELSE [trie |-> d, terms |-> terms, status |-> FALSE]

(* __delitem__: the resulting trie, count and status *)
delitem(d, terms, keyword_arg) ==
    IF keyword_arg # EmptyStr
    THEN LET keyword == fold(keyword_arg)
             found   == len_covered(d, keyword, 0) = Len(keyword)
         IN  IF found /\ d[keyword].keys # <<>> /\ HasKey(d, keyword, KEYWORD)
             THEN [trie |-> remove_path(d, keyword, Len(keyword) + 1),
                   terms |-> terms - 1,
                   status |-> TRUE]
             ELSE [trie |-> d, terms |-> terms, status |-> FALSE]
    ELSE [trie |-> d, terms |-> terms, status |-> FALSE]

(* get_all_keywords(term_so_far, current_dict) as a set of                 *)
(* <<term, clean name>> pairs; a dict holds one pair per term              *)
(* get_all_keywords reporting the term of every dict it visits *)
RECURSIVE all_keywords_pairs_every_dict(_, _, _)
all_keywords_pairs_every_dict(d, term_so_far, current_dict) ==
    LET keys == d[current_dict].keys
    IN  {<<term_so_far, d[current_dict].clean_name>>} \cup
        UNION {IF keys[i] = KEYWORD THEN {}
               ELSE all_keywords_pairs_every_dict(d, Append(term_so_far, keys[i]),
                                                  Append(current_dict, keys[i]))
               : i \in 1..Len(keys)}

RECURSIVE all_keywords_pairs(_, _, _)
all_keywords_pairs(d, term_so_far, current_dict) ==
    LET keys == d[current_dict].keys
    IN  UNION {IF keys[i] = KEYWORD
               THEN {<<term_so_far, d[current_dict].clean_name>>}
               ELSE all_keywords_pairs(d, Append(term_so_far, keys[i]),
                                       Append(current_dict, keys[i]))
               : i \in 1..Len(keys)}

get_all_keywords_in(d) ==
    LET pairs == all_keywords_pairs(d, <<>>, Root)
        terms == {p[1] : p \in pairs}
    IN  [t \in terms |-> (CHOOSE p \in pairs : p[1] = t)[2]]

get_all_keywords == get_all_keywords_in(keyword_trie_dict)

---------------------------------------------------------------------------
(* Fuzzy search *)

(* a next word that is always empty *)
get_next_word_empty(nwb, sentence, from) == <<>>

(* get_next_word: the leading run of word characters of sentence[from:]    *)
(* (`from` is a 0-based offset)                                            *)
RECURSIVE get_next_word(_, _, _)
get_next_word(nwb, sentence, from) ==
    IF from < Len(sentence) /\ sentence[from + 1] \in nwb
    THEN <<sentence[from + 1]>> \o get_next_word(nwb, sentence, from + 1)
    ELSE <<>>

(* one row of the Levenshtein table: the for loop of _levenshtein_rec;     *)
(* new_rows holds the columns computed so far                              *)
RECURSIVE levenshtein_row(_, _, _, _)
levenshtein_row(char, word, rows, new_rows) ==
    LET col == Len(new_rows)
    IN  IF col = Len(word) + 1 THEN new_rows
        ELSE LET insert_cost  == new_rows[col] + 1
                 delete_cost  == rows[col + 1] + 1
                 replace_cost == rows[col] + (IF word[col] # char THEN 1 ELSE 0)
                 m1   == IF insert_cost <= delete_cost THEN insert_cost
                         ELSE delete_cost
                 cost == IF m1 <= replace_cost THEN m1 ELSE replace_cost
             IN  levenshtein_row(char, word, rows, Append(new_rows, cost))

SeqMin(s) == CHOOSE m \in Range(s) : \A x \in Range(s) : m <= x

(* a search that descends only while the last cell of the row is within    *)
(* max_cost, instead of the minimum of the row                             *)
RECURSIVE levenshtein_rec_pruned_on_last_cell(_, _, _, _, _, _, _)
levenshtein_rec_pruned_on_last_cell(d, parent, char, word, rows, max_cost, depth) ==
    IF char = KEYWORD THEN <<>>
    ELSE
    LET node     == Append(parent, char)
        new_rows == levenshtein_row(char, word, rows, <<rows[1] + 1>>)
        cost     == IF Len(word) = 0 THEN 0 ELSE new_rows[Len(new_rows)]
        stop_crit ==
            Range(d[node].keys) \cap (white_space_chars \cup {KEYWORD}) # {}
        keys == d[node].keys
        RECURSIVE children(_)
        children(i) ==
            IF i > Len(keys) THEN <<>>
            ELSE levenshtein_rec_pruned_on_last_cell(d, node, keys[i], word,
                                                     new_rows, max_cost,
                                                     depth + 1)
                 \o children(i + 1)
    IN  IF new_rows[Len(new_rows)] <= max_cost /\ stop_crit
        THEN <<[node |-> node, cost |-> cost, depth |-> depth]>>
        ELSE IF new_rows[Len(new_rows)] <= max_cost THEN children(1)
        ELSE <<>>

(* _levenshtein_rec(char, node, ...) where node = parent[char]: the        *)
(* sequence of (node, cost, depth) it yields, in order.  The value stored  *)
(* under "_keyword_" is not a dict: it yields nothing.                     *)
RECURSIVE levenshtein_rec(_, _, _, _, _, _, _)
levenshtein_rec(d, parent, char, word, rows, max_cost, depth) ==
    IF char = KEYWORD THEN <<>>
    ELSE
    LET node     == Append(parent, char)
        new_rows == levenshtein_row(char, word, rows, <<rows[1] + 1>>)
        cost     == IF Len(word) = 0 THEN 0 ELSE new_rows[Len(new_rows)]
        stop_crit ==
            Range(d[node].keys) \cap (white_space_chars \cup {KEYWORD}) # {}
        keys == d[node].keys
        RECURSIVE children(_)
        children(i) ==
            IF i > Len(keys) THEN <<>>
            ELSE levenshtein_rec(d, node, keys[i], word, new_rows, max_cost,
                                 depth + 1) \o children(i + 1)
    IN  IF new_rows[Len(new_rows)] <= max_cost /\ stop_crit
        THEN <<[node |-> node, cost |-> cost, depth |-> depth]>>
        ELSE IF SeqMin(new_rows) <= max_cost THEN children(1)
        ELSE <<>>

(* levensthein(word, max_cost, start_node): everything the generator       *)
(* yields, in order                                                        *)
levensthein(d, word, max_cost, start_node_arg) ==
    LET start_node == IF d[start_node_arg].keys = <<>> THEN Root
                      ELSE start_node_arg
        rows == [i \in 1..(Len(word) + 1) |-> i - 1]
        keys == d[start_node].keys
        RECURSIVE items(_)
        items(i) ==
            IF i > Len(keys) THEN <<>>
            ELSE levenshtein_rec(d, start_node, keys[i], word, rows, max_cost, 1)
                 \o items(i + 1)
    IN  items(1)

---------------------------------------------------------------------------
(* Index mapping *)

RECURSIVE offsets_from(_, _)
offsets_from(sentence, idx) ==
    IF idx >= Len(sentence) THEN <<>>
    ELSE (IF sentence[idx + 1] = LATIN_CAPITAL_LETTER_I_WITH_DOT_ABOVE
          THEN <<idx, idx>> ELSE <<idx>>) \o offsets_from(sentence, idx + 1)

(* a mapping in which every character of the sentence stands twice *)
get_index_mapping_of_every_char_twice(sentence, cs) ==
    IF cs \/ LATIN_CAPITAL_LETTER_I_WITH_DOT_ABOVE \notin Range(sentence)
    THEN None
    ELSE [j \in 1..(2 * Len(sentence)) |-> (j - 1) \div 2]

(* get_index_mapping: None, or the list of original indices *)
get_index_mapping(sentence, cs) ==
    IF cs \/ LATIN_CAPITAL_LETTER_I_WITH_DOT_ABOVE \notin Range(sentence)
    THEN None
    ELSE offsets_from(sentence, 0)

(* list[i] of Python: a negative index counts from the end, an index out   *)
(* of range raises IndexError                                              *)
InRange(list, i) == -Len(list) <= i /\ i < Len(list)

Item(list, i) == IF i >= 0 THEN list[i + 1] ELSE list[Len(list) + i + 1]

(* a span whose end is looked up at end_idx instead of end_idx - 1 *)
get_span_indices_at_end_idx(start_idx, end_idx, index_mapping) ==
    IF index_mapping = None
    THEN [error |-> FALSE, start |-> start_idx, end |-> end_idx]
    ELSE IF InRange(index_mapping, start_idx) /\ InRange(index_mapping, end_idx)
    THEN [error |-> FALSE, start |-> Item(index_mapping, start_idx),
          end |-> Item(index_mapping, end_idx)]
    ELSE [error |-> TRUE, start |-> 0, end |-> 0]

(* a span given in offsets of the lower-cased sentence *)
get_span_indices_without_mapping(start_idx, end_idx, index_mapping) ==
    [error |-> FALSE, start |-> start_idx, end |-> end_idx]

(* _get_span_indices; error is TRUE when indexing raises *)
get_span_indices(start_idx, end_idx, index_mapping) ==
    IF index_mapping = None
    THEN [error |-> FALSE, start |-> start_idx, end |-> end_idx]
    ELSE IF InRange(index_mapping, start_idx) /\ InRange(index_mapping, end_idx - 1)
    THEN [error |-> FALSE, start |-> Item(index_mapping, start_idx),
          end |-> Item(index_mapping, end_idx - 1) + 1]
    ELSE [error |-> TRUE, start |-> 0, end |-> 0]

---------------------------------------------------------------------------
(* Extraction *)

(* the last value a generator yields instead of the first *)
LastOr(yields, default) ==
    IF yields = <<>> THEN default ELSE yields[Len(yields)]

(* next(generator, default) *)
FirstOr(yields, default) ==
    IF yields = <<>> THEN default ELSE yields[1]

(* one iteration of the lookahead loop of extract_keywords (the body of    *)
(* while idy < sentence_len); la holds current_dict_continued, idy,        *)
(* longest_sequence_found, sequence_end_pos, is_longer_seq_found and       *)
(* curr_cost, and counts the calls of levensthein in fuzzy_calls; break    *)
(* tells whether the iteration left the loop with break                    *)
lookahead_iteration(d, nwb, sentence, la) ==
    LET node == la.current_dict_continued
        inner_char == sentence[la.idy + 1]
        la1 == IF inner_char \notin nwb /\ HasKey(d, node, KEYWORD)
               THEN [la EXCEPT
                       !.longest_sequence_found = d[node].clean_name,
                       !.sequence_end_pos = la.idy,
                       !.is_longer_seq_found = TRUE]
               ELSE la
        \* the fuzzy step, yields being what levensthein yields for next_word
        fuzzy(next_word, yields) ==
            IF yields = <<>>
            THEN [la |-> [la1 EXCEPT !.idy = @ + Len(next_word) - 1,
                                     !.fuzzy_calls = @ + 1],
                  break |-> TRUE]
            ELSE [la |-> [la1 EXCEPT
                            !.current_dict_continued = yields[1].node,
                            !.curr_cost = @ - yields[1].cost,
                            !.idy = @ + Len(next_word) - 1 + 1,
                            !.fuzzy_calls = @ + 1],
                  break |-> FALSE]
    IN  IF HasKey(d, node, inner_char)
        THEN [la |-> [la1 EXCEPT
                        !.current_dict_continued = Append(node, inner_char),
                        !.idy = la.idy + 1],
              break |-> FALSE]
        ELSE IF la.curr_cost > 0
        THEN fuzzy(get_next_word(nwb, sentence, la.idy),
                   levensthein(d, get_next_word(nwb, sentence, la.idy),
                               la.curr_cost, node))
        ELSE [la |-> la1, break |-> TRUE]

(* a lookahead loop that forgets the terminal it is on when the sentence   *)
(* ends                                                                    *)
lookahead_else_without_update(d, la) == la

(* the else clause of the lookahead loop: end of sentence reached *)
lookahead_else(d, la) ==
    IF HasKey(d, la.current_dict_continued, KEYWORD)
    THEN [la EXCEPT
            !.longest_sequence_found = d[la.current_dict_continued].clean_name,
            !.sequence_end_pos = la.idy,
            !.is_longer_seq_found = TRUE]
    ELSE la

(* the lookahead loop of extract_keywords (while idy < sentence_len, with  *)
(* its else clause)                                                        *)
RECURSIVE lookahead(_, _, _, _)
lookahead(d, nwb, sentence, la) ==
    LET continue(r) == IF r.break THEN r.la
                       ELSE lookahead(d, nwb, sentence, r.la)
    IN  IF la.idy < Len(sentence)
        THEN continue(lookahead_iteration(d, nwb, sentence, la))
        ELSE lookahead_else(d, la)

(* a match reported at the offsets of the lower-cased sentence *)
append_match_at_scan_offsets(st, value, start, end, index_mapping) ==
    [st EXCEPT !.keywords_extracted = Append(@, <<value, start, end>>)]

(* keywords_extracted.append((value, *get_span_indices(start, end))) *)
append_match(st, value, start, end, index_mapping) ==
    LET span == get_span_indices(start, end, index_mapping)
    IN  IF span.error THEN [st EXCEPT !.error = TRUE]
        ELSE [st EXCEPT !.keywords_extracted =
                          Append(@, <<value, span.start, span.end>>)]

(* offset of the first character at or after idy that is not a word        *)
(* character, or sentence_len                                              *)
RECURSIVE skip_to_end_of_word(_, _, _)
skip_to_end_of_word(nwb, sentence, idy) ==
    IF idy < Len(sentence) /\ sentence[idy + 1] \in nwb
    THEN skip_to_end_of_word(nwb, sentence, idy + 1)
    ELSE idy

(* the initial values of the local variables of extract_keywords *)
scan_init(max_cost) ==
    [current_dict |-> Root, sequence_start_pos |-> 0, sequence_end_pos |-> 0,
     reset_current_dict |-> FALSE, idx |-> 0, curr_cost |-> max_cost,
     keywords_extracted |-> <<>>, error |-> FALSE, fuzzy_calls |-> 0]

(* the lookahead state before the lookahead loop: sequence_found and the  *)
(* longest sequence known when the boundary character is reached           *)
lookahead_init(d, st) ==
    [current_dict_continued |-> st.current_dict,
     idy |-> st.idx,
     longest_sequence_found |->
        IF HasKey(d, st.current_dict, KEYWORD)
        THEN d[st.current_dict].clean_name ELSE None,
     sequence_end_pos |->
        IF HasKey(d, st.current_dict, KEYWORD) THEN st.idx
        ELSE st.sequence_end_pos,
     is_longer_seq_found |-> FALSE,
     curr_cost |-> st.curr_cost,
     fuzzy_calls |-> st.fuzzy_calls]

(* entering the lookahead loop: current_dict_continued = current_dict[char] *)
(* and idy = idx + 1                                                       *)
lookahead_entry(d, sentence, st) ==
    [lookahead_init(d, st) EXCEPT
       !.current_dict_continued = Append(st.current_dict, sentence[st.idx + 1]),
       !.idy = st.idx + 1]

(* the outer loop is at a boundary character that continues the current    *)
(* dict: the lookahead loop is entered                                     *)
enters_lookahead(d, nwb, sentence, st) ==
    /\ sentence[st.idx + 1] \notin nwb
    /\ HasKey(d, st.current_dict, sentence[st.idx + 1])

(* a scan that keeps its cursor on the matched node after the lookahead    *)
after_lookahead_without_reset(st, la, index_mapping, max_cost) ==
    LET idx1 == IF la.is_longer_seq_found THEN la.sequence_end_pos ELSE st.idx
        st1 == [st EXCEPT !.idx = idx1,
                          !.sequence_end_pos = la.sequence_end_pos,
                          !.curr_cost = la.curr_cost,
                          !.fuzzy_calls = la.fuzzy_calls,
                          !.reset_current_dict = TRUE]
    IN  IF la.longest_sequence_found # None
        THEN [append_match(st1, la.longest_sequence_found,
                           st.sequence_start_pos, idx1, index_mapping)
                EXCEPT !.curr_cost = max_cost]
        ELSE st1

(* a scan that keeps the budget it has left when it emits a match *)
after_lookahead_keeps_spent_budget(st, la, index_mapping, max_cost) ==
    LET idx1 == IF la.is_longer_seq_found THEN la.sequence_end_pos ELSE st.idx
        st1 == [st EXCEPT !.current_dict = Root,
                          !.idx = idx1,
                          !.sequence_end_pos = la.sequence_end_pos,
                          !.curr_cost = la.curr_cost,
                          !.fuzzy_calls = la.fuzzy_calls,
                          !.reset_current_dict = TRUE]
    IN  IF la.longest_sequence_found # None
        THEN append_match(st1, la.longest_sequence_found,
                          st.sequence_start_pos, idx1, index_mapping)
        ELSE st1

(* what follows the lookahead loop, la being the state it ended in *)
after_lookahead(st, la, index_mapping, max_cost) ==
    LET idx1 == IF la.is_longer_seq_found THEN la.sequence_end_pos ELSE st.idx
        st1 == [st EXCEPT !.current_dict = Root,
                          !.idx = idx1,
                          !.sequence_end_pos = la.sequence_end_pos,
                          !.curr_cost = la.curr_cost,
                          !.fuzzy_calls = la.fuzzy_calls,
                          !.reset_current_dict = TRUE]
    IN  IF la.longest_sequence_found # None
        THEN [append_match(st1, la.longest_sequence_found,
                           st.sequence_start_pos, idx1, index_mapping)
                EXCEPT !.curr_cost = max_cost]
        ELSE st1

(* an iteration that omits the check made at the end of the sentence *)
end_of_iteration_without_final_check(d, sentence, index_mapping, b) ==
    [b EXCEPT !.idx = b.idx + 1,
              !.reset_current_dict = FALSE,
              !.sequence_start_pos =
                  IF b.reset_current_dict THEN b.idx + 1 ELSE @]

(* an iteration that leaves the sequence start where it is after a reset *)
end_of_iteration_without_start_reset(d, sentence, index_mapping, b) ==
    LET final ==
          IF b.idx + 1 >= Len(sentence) /\ HasKey(d, b.current_dict, KEYWORD)
          THEN append_match(b, d[b.current_dict].clean_name,
                            b.sequence_start_pos, Len(sentence), index_mapping)
          ELSE b
    IN  [final EXCEPT !.idx = final.idx + 1,
                      !.reset_current_dict = FALSE]

(* the end of an iteration of the outer loop: the check for a sequence     *)
(* discovered at the end of the sentence, idx += 1 and the reset of the    *)
(* sequence start; b is the state after the if / elif chain on char        *)
end_of_iteration(d, sentence, index_mapping, b) ==
    LET \* if we are end of sentence and have a sequence discovered
        final ==
          IF b.idx + 1 >= Len(sentence) /\ HasKey(d, b.current_dict, KEYWORD)
          THEN append_match(b, d[b.current_dict].clean_name,
                            b.sequence_start_pos, Len(sentence), index_mapping)
          ELSE b
        \* idx += 1, and the reset of the sequence start
        advance(f) ==
          [f EXCEPT !.idx = f.idx + 1,
                    !.reset_current_dict = FALSE,
                    !.sequence_start_pos =
                        IF f.reset_current_dict THEN f.idx + 1 ELSE @]
    IN  advance(final)

(* one iteration of the outer while loop of extract_keywords *)
scan_step(d, nwb, sentence, index_mapping, max_cost, st) ==
    LET char == sentence[st.idx + 1]
        cur  == st.current_dict
        \* the fuzzy search of the main loop, found being its first yield
        after_levensthein(next_word, found) ==
            [st EXCEPT !.current_dict = found.node,
                       !.curr_cost = @ - found.cost,
                       !.idx = @ + Len(next_word) - 1,
                       !.fuzzy_calls = @ + 1]
        \* the if / elif chain on char
        branch ==
          IF char \notin nwb
          THEN IF HasKey(d, cur, KEYWORD) \/ HasKey(d, cur, char)
               THEN after_lookahead(
                      st,
                      IF enters_lookahead(d, nwb, sentence, st)
                      THEN lookahead(d, nwb, sentence,
                                     lookahead_entry(d, sentence, st))
                      ELSE lookahead_init(d, st),
                      index_mapping, max_cost)
               ELSE [st EXCEPT !.current_dict = Root,
                               !.reset_current_dict = TRUE]
          ELSE IF HasKey(d, cur, char)
          THEN [st EXCEPT !.current_dict = Append(cur, char)]
          ELSE IF st.curr_cost > 0
          THEN after_levensthein(
                 get_next_word(nwb, sentence, st.idx),
                 FirstOr(levensthein(d, get_next_word(nwb, sentence, st.idx),
                                     st.curr_cost, cur),
                         [node |-> Root, cost |-> 0, depth |-> 0]))
          ELSE [st EXCEPT !.current_dict = Root,
                          !.reset_current_dict = TRUE,
                          !.idx = skip_to_end_of_word(nwb, sentence, st.idx + 1)]
    IN  end_of_iteration(d, sentence, index_mapping, branch)

(* the outer while loop *)
RECURSIVE scan(_, _, _, _, _, _)
scan(d, nwb, sentence, index_mapping, max_cost, st) ==
    IF st.idx < Len(sentence) /\ ~st.error
    THEN scan(d, nwb, sentence, index_mapping, max_cost,
              scan_step(d, nwb, sentence, index_mapping, max_cost, st))
    ELSE st

(* a return statement that drops a value already in the list *)
return_value_without_duplicates(span_info, st) ==
    LET kept == {i \in 1..Len(st.keywords_extracted) :
                   \A j \in 1..(i - 1) : st.keywords_extracted[j][1]
                                            # st.keywords_extracted[i][1]}
        RECURSIVE keep(_)
        keep(i) ==
            IF i > Len(st.keywords_extracted) THEN <<>>
            ELSE (IF i \in kept THEN <<st.keywords_extracted[i]>> ELSE <<>>)
                 \o keep(i + 1)
    IN  [keywords |->
           IF span_info THEN keep(1)
           ELSE [i \in 1..Len(keep(1)) |-> keep(1)[i][1]],
         error |-> st.error, fuzzy_calls |-> st.fuzzy_calls]

(* the return statement of extract_keywords, st being the state the loop   *)
(* ended in                                                                *)
return_value(span_info, st) ==
    [keywords |->
       IF span_info THEN st.keywords_extracted
       ELSE [i \in 1..Len(st.keywords_extracted) |->
               st.keywords_extracted[i][1]],
     error |-> st.error, fuzzy_calls |-> st.fuzzy_calls]

(* extract_keywords(sentence, span_info, max_cost): the returned list,     *)
(* whether the call raised, and how many fuzzy searches it made            *)
extract_keywords_in(d, nwb, cs, sentence_arg, span_info, max_cost) ==
    IF sentence_arg = EmptyStr
    THEN [keywords |-> <<>>, error |-> FALSE, fuzzy_calls |-> 0]
    ELSE LET index_mapping == get_index_mapping(sentence_arg, cs)
             sentence == IF cs THEN sentence_arg ELSE lower(sentence_arg)
         IN  return_value(span_info,
                          scan(d, nwb, sentence, index_mapping, max_cost,
                               scan_init(max_cost)))

extract_keywords(sentence, span_info, max_cost) ==
    extract_keywords_in(keyword_trie_dict, non_word_boundaries, case_sensitive,
                        sentence, span_info, max_cost)

---------------------------------------------------------------------------
(* The matcher as a state machine *)

(* registered is the history of the calls: the patterns (case-folded) that *)
(* were added with a value and not removed since, with the value given by  *)
(* the latest add                                                          *)
record_add(reg, keyword, clean_name) ==
    IF keyword = EmptyStr \/ clean_name = EmptyStr THEN reg
    ELSE LET kw == fold(keyword)
         IN  [t \in DOMAIN reg \cup {kw} |->
                IF t = kw THEN (IF clean_name = None THEN keyword ELSE clean_name)
                ELSE reg[t]]

record_remove(reg, keyword) ==
    [t \in DOMAIN reg \ {fold(keyword)} |-> reg[t]]

(* no call of extract_keywords is running *)
idle_frame == [pc |-> "idle"]

Init ==
    /\ keyword_trie_dict = [p \in {Root} |-> EmptyDict]
    /\ terms_in_trie = 0
    /\ case_sensitive \in BOOLEAN
    /\ non_word_boundaries = DefaultNonWordBoundaries
    /\ registered = <<>>
    /\ last = [op |-> "__init__"]
    /\ frame = idle_frame
    /\ concurrent = idle_frame

(* how a call relates to the matcher it is made on (kept in last, for the  *)
(* record of the call)                                                     *)
add_case(keyword, clean_name) ==
    IF keyword = EmptyStr THEN "empty keyword"
    ELSE IF clean_name = EmptyStr THEN "empty clean_name"
    ELSE IF clean_name = None THEN "no clean_name"
    ELSE "clean_name"

remove_case(keyword) ==
    LET kw == fold(keyword)
    IN  IF keyword = EmptyStr THEN "empty keyword"
        ELSE IF kw \in DOMAIN registered
        THEN (IF \E t \in DOMAIN registered \ {kw} : IsPrefix(kw, t)
              THEN "registered prefix"
              ELSE IF \E t \in DOMAIN registered \ {kw} : IsPrefix(t, kw)
              THEN "registered extension"
              ELSE IF \E t \in DOMAIN registered \ {kw} : t[1] = kw[1]
              THEN "registered sibling"
              ELSE "registered")
        ELSE IF \E t \in DOMAIN registered : IsPrefix(kw, t) THEN "prefix"
        ELSE IF \E t \in DOMAIN registered : IsPrefix(t, kw) THEN "extension"
        ELSE "other"

(* add_keyword(keyword, clean_name) *)
AddKeyword(keyword, clean_name) ==
    LET r == setitem(keyword_trie_dict, terms_in_trie, keyword, clean_name)
    IN  /\ registered' = record_add(registered, keyword, clean_name)
        /\ r.terms <= MaxTerms
        /\ keyword_trie_dict' = r.trie
        /\ terms_in_trie' = r.terms
        /\ last' = [op |-> "add_keyword", status |-> r.status,
                    case |-> add_case(keyword, clean_name)]
        /\ UNCHANGED <<case_sensitive, non_word_boundaries, frame, concurrent>>

(* remove_keyword(keyword) *)
RemoveKeyword(keyword) ==
    LET r == delitem(keyword_trie_dict, terms_in_trie, keyword)
    IN  /\ registered' = record_remove(registered, keyword)
        /\ keyword_trie_dict' = r.trie
        /\ terms_in_trie' = r.terms
        /\ last' = [op |-> "remove_keyword", status |-> r.status,
                    case |-> remove_case(keyword)]
        /\ UNCHANGED <<case_sensitive, non_word_boundaries, frame, concurrent>>

(* word in keyword_processor *)
Contains(word) ==
    /\ last' = [op |-> "__contains__", result |-> contains(word)]
    /\ UNCHANGED <<keyword_trie_dict, terms_in_trie, case_sensitive,
                   non_word_boundaries, registered, frame, concurrent>>

(* get_keyword(word) *)
GetKeyword(word) ==
    /\ last' = [op |-> "get_keyword", result |-> get_keyword(word)]
    /\ UNCHANGED <<keyword_trie_dict, terms_in_trie, case_sensitive,
                   non_word_boundaries, registered, frame, concurrent>>

(* get_all_keywords() *)
GetAllKeywords ==
    /\ last' = [op |-> "get_all_keywords", result |-> get_all_keywords]
    /\ UNCHANGED <<keyword_trie_dict, terms_in_trie, case_sensitive,
                   non_word_boundaries, registered, frame, concurrent>>

(* an extraction that walks the trie with setdefault *)
ExtractKeywordsWithSetdefault(sentence, span_info, max_cost) ==
    /\ last' = [op |-> "extract_keywords",
                result |-> extract_keywords(sentence, span_info, max_cost)]
    /\ keyword_trie_dict' = setdefault_path(keyword_trie_dict, fold(sentence), 0)
    /\ UNCHANGED <<terms_in_trie, case_sensitive, non_word_boundaries,
                   registered, frame, concurrent>>

(* extract_keywords(sentence, span_info, max_cost) *)
ExtractKeywords(sentence, span_info, max_cost) ==
    /\ last' = [op |-> "extract_keywords",
                result |-> extract_keywords(sentence, span_info, max_cost)]
    /\ UNCHANGED <<keyword_trie_dict, terms_in_trie, case_sensitive,
                   non_word_boundaries, registered, frame, concurrent>>

Next ==
    \/ \E keyword \in Keywords, clean_name \in CleanNames :
          AddKeyword(keyword, clean_name)
    \/ \E keyword \in Keywords : RemoveKeyword(keyword)
    \/ \E word \in Keywords : Contains(word)
    \/ \E word \in Keywords : GetKeyword(word)
    \/ GetAllKeywords
    \/ \E sentence \in Sentences, span_info \in BOOLEAN, max_cost \in 0..MaxCost :
          ExtractKeywords(sentence, span_info, max_cost)

Spec == Init /\ [][Next]_vars

---------------------------------------------------------------------------
(* A call of extract_keywords, one loop iteration at a time *)

(* a local variable of the call that has no value yet *)
Unset == [unset |-> TRUE]

(* the frame of a call at the start of its outer loop (at its return       *)
(* statement when the sentence is empty): the arguments, the lower-cased   *)
(* sentence, the index mapping and the initial local variables             *)
entry(sentence_arg, span_info, max_cost) ==
    IF sentence_arg = EmptyStr
    THEN [pc |-> "done", sentence_arg |-> sentence_arg,
          span_info |-> span_info, max_cost |-> max_cost,
          sentence |-> sentence_arg, index_mapping |-> None,
          st |-> scan_init(max_cost), la |-> Unset,
          result |-> [keywords |-> <<>>, error |-> FALSE, fuzzy_calls |-> 0]]
    ELSE [pc |-> "scan", sentence_arg |-> sentence_arg,
          span_info |-> span_info, max_cost |-> max_cost,
          sentence |-> IF case_sensitive THEN sentence_arg
                       ELSE lower(sentence_arg),
          index_mapping |-> get_index_mapping(sentence_arg, case_sensitive),
          st |-> scan_init(max_cost), la |-> Unset, result |-> Unset]

(* a call whose fuzzy budget is what the previous call left: nothing once  *)
(* the previous call has made a fuzzy search                               *)
CallExtractWithLeftBudget(sentence_arg, span_info, max_cost) ==
    /\ frame.pc = "idle"
    /\ frame' =
         IF sentence_arg = EmptyStr
         THEN [pc |-> "done", sentence_arg |-> sentence_arg,
               span_info |-> span_info, max_cost |-> max_cost,
               sentence |-> sentence_arg, index_mapping |-> None,
               st |-> scan_init(max_cost), la |-> Unset,
               result |-> [keywords |-> <<>>, error |-> FALSE,
                           fuzzy_calls |-> 0]]
         ELSE [pc |-> "scan", sentence_arg |-> sentence_arg,
               span_info |-> span_info, max_cost |-> max_cost,
               sentence |-> IF case_sensitive THEN sentence_arg
                            ELSE lower(sentence_arg),
               index_mapping |-> get_index_mapping(sentence_arg, case_sensitive),
               st |-> IF /\ "result" \in DOMAIN last
                         /\ last.op = "extract_keywords"
                         /\ last.result.fuzzy_calls > 0
                      THEN scan_init(0) ELSE scan_init(max_cost),
               la |-> Unset, result |-> Unset]
    /\ last' = [op |-> "extract_keywords"]
    /\ UNCHANGED <<keyword_trie_dict, terms_in_trie, case_sensitive,
                   non_word_boundaries, registered, concurrent>>

(* extract_keywords is called: frame holds the arguments and the local     *)
(* variables of the call (st: those of the outer loop, la: those of the    *)
(* lookahead loop while it runs) and, once it has returned, its result     *)
CallExtract(sentence_arg, span_info, max_cost) ==
    /\ frame.pc = "idle"
    /\ frame' = entry(sentence_arg, span_info, max_cost)
    /\ last' = [op |-> "extract_keywords"]
    /\ UNCHANGED <<keyword_trie_dict, terms_in_trie, case_sensitive,
                   non_word_boundaries, registered, concurrent>>

(* the frame after an iteration of the outer loop that ended in st: an     *)
(* IndexError raised by the iteration ends the call                        *)
iteration_end(f, st) ==
    IF st.error
    THEN [f EXCEPT !.pc = "raised", !.st = st, !.la = Unset,
                   !.result = return_value(f.span_info, st)]
    ELSE [f EXCEPT !.pc = "scan", !.st = st, !.la = Unset]

(* the frame after one iteration of the outer while loop, up to the        *)
(* lookahead loop when the iteration enters it                             *)
outer_iteration(f) ==
    IF enters_lookahead(keyword_trie_dict, non_word_boundaries,
                        f.sentence, f.st)
    THEN [f EXCEPT !.pc = "lookahead",
                   !.la = lookahead_entry(keyword_trie_dict, f.sentence, f.st)]
    ELSE iteration_end(f,
           scan_step(keyword_trie_dict, non_word_boundaries, f.sentence,
                     f.index_mapping, f.max_cost, f.st))

(* the frame after one iteration of the lookahead loop; when the loop ends *)
(* (break, or its else clause at the end of the sentence) the rest of the  *)
(* iteration of the outer loop follows                                     *)
inner_iteration(f) ==
    LET ended(la) ==
          iteration_end(f,
            end_of_iteration(keyword_trie_dict, f.sentence, f.index_mapping,
                             after_lookahead(f.st, la, f.index_mapping,
                                             f.max_cost)))
        iterated(r) == IF r.break THEN ended(r.la)
                       ELSE [f EXCEPT !.la = r.la]
    IN  IF f.la.idy < Len(f.sentence)
        THEN iterated(lookahead_iteration(keyword_trie_dict,
                        non_word_boundaries, f.sentence, f.la))
        ELSE ended(lookahead_else(keyword_trie_dict, f.la))

(* the frame at the return statement, the outer loop having ended *)
exit_loop(f) ==
    [f EXCEPT !.pc = "done", !.result = return_value(f.span_info, f.st)]

(* the frame after the next step of a running call *)
step(f) ==
    IF f.pc = "lookahead" THEN inner_iteration(f)
    ELSE IF f.st.idx < Len(f.sentence) THEN outer_iteration(f)
    ELSE exit_loop(f)

(* one iteration of the outer while loop *)
ScanIteration ==
    /\ frame.pc = "scan"
    /\ frame.st.idx < Len(frame.sentence)
    /\ frame' = outer_iteration(frame)
    /\ UNCHANGED <<keyword_trie_dict, terms_in_trie, case_sensitive,
                   non_word_boundaries, registered, last, concurrent>>

(* one iteration of the lookahead loop *)
LookaheadIteration ==
    /\ frame.pc = "lookahead"
    /\ frame' = inner_iteration(frame)
    /\ UNCHANGED <<keyword_trie_dict, terms_in_trie, case_sensitive,
                   non_word_boundaries, registered, last, concurrent>>

(* the outer loop ends (idx >= sentence_len) and the call reaches its      *)
(* return statement                                                        *)
ExitLoop ==
    /\ frame.pc = "scan"
    /\ frame.st.idx >= Len(frame.sentence)
    /\ frame' = exit_loop(frame)
    /\ UNCHANGED <<keyword_trie_dict, terms_in_trie, case_sensitive,
                   non_word_boundaries, registered, last, concurrent>>

(* the call returns (or raises) to its caller *)
Return ==
    /\ frame.pc \in {"done", "raised"}
    /\ frame' = idle_frame
    /\ last' = [op |-> "extract_keywords", result |-> frame.result]
    /\ UNCHANGED <<keyword_trie_dict, terms_in_trie, case_sensitive,
                   non_word_boundaries, registered, concurrent>>

(* an iteration of the outer loop, or of the lookahead loop, is to run *)
Running == frame.pc \in {"scan", "lookahead"}

(* a step of the running call *)
Step == ScanIteration \/ LookaheadIteration \/ ExitLoop

(* a call that has started keeps running until it returns: weak fairness   *)
(* of Step, WF_vars(Step), written out with Running for ENABLED            *)
(* <<Step>>_vars (a step is enabled exactly while the call is running, and *)
(* it changes the frame)                                                   *)
StepFairness == []<>(~Running) \/ []<><<Step>>_vars

(* the inputs of the scans: patterns with a boundary character inside, at  *)
(* the start and at the end, with the letter i and with U+0130; texts over *)
(* word characters of both cases, a boundary character and U+0130          *)
MaxScanSentenceLen == 3

ScanKeywords ==
    {<<"a">>, <<"i">>, <<"a", " ">>, <<" ", "a">>, <<"a", "i">>,
     <<LATIN_CAPITAL_LETTER_I_WITH_DOT_ABOVE>>,
     <<"a", LATIN_CAPITAL_LETTER_I_WITH_DOT_ABOVE>>}

ScanChars == {"a", "A", "i", " ", LATIN_CAPITAL_LETTER_I_WITH_DOT_ABOVE}

ScanSentences == StringsUpTo(ScanChars, MaxScanSentenceLen)

ScanNext ==
    \/ /\ frame.pc = "idle"
       /\ \E keyword \in ScanKeywords : AddKeyword(keyword, None)
    \/ /\ frame.pc = "idle"
       /\ \E keyword \in ScanKeywords : RemoveKeyword(keyword)
    \/ \E sentence \in ScanSentences, span_info \in BOOLEAN,
          max_cost \in 0..MaxCost :
          CallExtract(sentence, span_info, max_cost)
    \/ ScanIteration
    \/ LookaheadIteration
    \/ ExitLoop
    \/ Return

(* a running call keeps running, and a call that has reached its return    *)
(* statement returns to its caller                                         *)
ScanSpec ==
    /\ Init
    /\ [][ScanNext]_vars
    /\ StepFairness
    /\ WF_vars(Return)

---------------------------------------------------------------------------
(* The example of the class docstring *)

(* keyword_names and clean_names of the example, zipped *)
DocAdds ==
    << [keyword |-> <<"N", "Y">>,
        clean_name |-> <<"n", "e", "w", " ", "y", "o", "r", "k">>],
       [keyword |-> <<"n", "e", "w", "-", "y", "o", "r", "k">>,
        clean_name |-> <<"n", "e", "w", " ", "y", "o", "r", "k">>],
       [keyword |-> <<"S", "F">>,
        clean_name |-> <<"s", "a", "n", " ", "f", "r", "a", "n", "c", "i",
                         "s", "c", "o">>] >>

(* 'I love SF and NY. new-york is the best.' *)
DocSentence ==
    <<"I", " ", "l", "o", "v", "e", " ", "S", "F", " ", "a", "n",
      "d", " ", "N", "Y", ".", " ", "n", "e", "w", "-", "y", "o",
      "r", "k", " ", "i", "s", " ", "t", "h", "e", " ", "b", "e",
      "s", "t", ".">>

(* the matcher after add_keyword for the first n entries of adds, taken in *)
(* the order o                                                             *)
RECURSIVE add_all(_, _, _)
add_all(adds, o, n) ==
    IF n = 0
    THEN [trie |-> [p \in {Root} |-> EmptyDict], terms |-> 0,
          registered |-> <<>>]
    ELSE LET added(m, r) ==
               [trie |-> r.trie, terms |-> r.terms,
                registered |-> record_add(m.registered, adds[o[n]].keyword,
                                          adds[o[n]].clean_name)]
             add(m) == added(m, setitem(m.trie, m.terms, adds[o[n]].keyword,
                                        adds[o[n]].clean_name))
         IN  add(add_all(adds, o, n - 1))

(* the matcher of the example: KeywordProcessor() and the three adds, in   *)
(* the order of the docstring or in another order                          *)
DocInit ==
    /\ case_sensitive = FALSE
    /\ non_word_boundaries = DefaultNonWordBoundaries
    /\ \E o \in {f \in [1..Len(DocAdds) -> 1..Len(DocAdds)] :
                    \A i, j \in 1..Len(DocAdds) : f[i] = f[j] => i = j} :
          /\ keyword_trie_dict = add_all(DocAdds, o, Len(DocAdds)).trie
          /\ terms_in_trie = add_all(DocAdds, o, Len(DocAdds)).terms
          /\ registered = add_all(DocAdds, o, Len(DocAdds)).registered
    /\ last = [op |-> "add_keyword", status |-> TRUE, case |-> "clean_name"]
    /\ frame = idle_frame
    /\ concurrent = idle_frame

DocNext ==
    \/ /\ frame.pc = "idle"
       /\ \E i \in 1..Len(DocAdds) : RemoveKeyword(DocAdds[i].keyword)
    \/ \E span_info \in BOOLEAN : CallExtract(DocSentence, span_info, 0)
    \/ ScanIteration
    \/ LookaheadIteration
    \/ ExitLoop
    \/ Return

DocSpec ==
    /\ DocInit
    /\ [][DocNext]_vars
    /\ WF_vars(Step)

---------------------------------------------------------------------------
(* Two calls of extract_keywords at the same time on one matcher *)

(* a second call of extract_keywords starts while the first may be         *)
(* running: concurrent holds its arguments and local variables             *)
ConcurrentCall(sentence_arg, span_info, max_cost) ==
    /\ concurrent.pc = "idle"
    /\ concurrent' = entry(sentence_arg, span_info, max_cost)
    /\ UNCHANGED <<keyword_trie_dict, terms_in_trie, case_sensitive,
                   non_word_boundaries, registered, last, frame>>

(* a step of the second call that runs on the local variables of the first *)
(* call while that one is in its loops                                     *)
ConcurrentStepOnSharedLocals ==
    /\ concurrent.pc \in {"scan", "lookahead"}
    /\ concurrent' =
         IF frame.pc = concurrent.pc
         THEN step([concurrent EXCEPT !.st = frame.st, !.la = frame.la])
         ELSE step(concurrent)
    /\ UNCHANGED <<keyword_trie_dict, terms_in_trie, case_sensitive,
                   non_word_boundaries, registered, last, frame>>

(* one step of the second call: an iteration of its outer loop or of its   *)
(* lookahead loop, or the end of its outer loop                            *)
ConcurrentStep ==
    /\ concurrent.pc \in {"scan", "lookahead"}
    /\ concurrent' = step(concurrent)
    /\ UNCHANGED <<keyword_trie_dict, terms_in_trie, case_sensitive,
                   non_word_boundaries, registered, last, frame>>

(* the second call returns (or raises) to its caller *)
ConcurrentReturn ==
    /\ concurrent.pc \in {"done", "raised"}
    /\ concurrent' = idle_frame
    /\ UNCHANGED <<keyword_trie_dict, terms_in_trie, case_sensitive,
                   non_word_boundaries, registered, last, frame>>

(* the matcher the two calls read: three patterns, one inside another and  *)
(* one starting with a boundary character                                  *)
ConcAdds ==
    << [keyword |-> <<"a">>, clean_name |-> None],
       [keyword |-> <<"a", "i">>, clean_name |-> None],
       [keyword |-> <<" ", "a">>, clean_name |-> None] >>

MaxConcSentenceLen == 2

ConcSentences == StringsUpTo({"a", "i", " "}, MaxConcSentenceLen)

(* the matcher is built, in any order of the adds, before the calls start  *)
ConcInit ==
    /\ case_sensitive \in BOOLEAN
    /\ non_word_boundaries = DefaultNonWordBoundaries
    /\ \E o \in {f \in [1..Len(ConcAdds) -> 1..Len(ConcAdds)] :
                    \A i, j \in 1..Len(ConcAdds) : f[i] = f[j] => i = j} :
          /\ keyword_trie_dict = add_all(ConcAdds, o, Len(ConcAdds)).trie
          /\ terms_in_trie = add_all(ConcAdds, o, Len(ConcAdds)).terms
          /\ registered = add_all(ConcAdds, o, Len(ConcAdds)).registered
    /\ last = [op |-> "add_keyword", status |-> TRUE, case |-> "no clean_name"]
    /\ frame = idle_frame
    /\ concurrent = idle_frame

(* no add and no remove: only the steps of the two calls, in any order *)
ConcNext ==
    \/ \E sentence \in ConcSentences, max_cost \in 0..MaxCost :
          CallExtract(sentence, TRUE, max_cost)
    \/ ScanIteration
    \/ LookaheadIteration
    \/ ExitLoop
    \/ Return
    \/ \E sentence \in ConcSentences, max_cost \in 0..MaxCost :
          ConcurrentCall(sentence, TRUE, max_cost)
    \/ ConcurrentStep
    \/ ConcurrentReturn

ConcSpec == ConcInit /\ [][ConcNext]_vars

---------------------------------------------------------------------------
(* Loading patterns from a dictionary *)

(* the inner loop of add_keywords_from_dict: add_keyword(keyword,          *)
(* clean_name) for the first n keywords of the list                        *)
RECURSIVE add_keyword_list(_, _, _, _)
add_keyword_list(m, keywords, clean_name, n) ==
    IF n = 0 THEN m
    ELSE LET added(p, r) ==
               [trie |-> r.trie, terms |-> r.terms,
                registered |-> record_add(p.registered, keywords[n], clean_name),
                raised |-> FALSE]
             add(p) == added(p, setitem(p.trie, p.terms, keywords[n], clean_name))
         IN  add(add_keyword_list(m, keywords, clean_name, n - 1))

(* add_keywords_from_dict over the first n items of keyword_dict, a dict   *)
(* given as the sequence of its items in iteration order: each item is     *)
(* tested and loaded in turn, and the first value that is not a list       *)
(* raises AttributeError                                                   *)
RECURSIVE add_keywords_from_dict(_, _, _)
add_keywords_from_dict(m, keyword_dict, n) ==
    IF n = 0 THEN [trie |-> m.trie, terms |-> m.terms,
                   registered |-> m.registered, raised |-> FALSE]
    ELSE LET item == keyword_dict[n]
             load(p) ==
               IF p.raised THEN p
               ELSE IF ~item.is_list THEN [p EXCEPT !.raised = TRUE]
               ELSE add_keyword_list(p, item.keywords, item.clean_name,
                                     Len(item.keywords))
         IN  load(add_keywords_from_dict(m, keyword_dict, n - 1))

(* add_keywords_from_dict(keyword_dict), to its return or its raise *)
AddKeywordsFromDict(keyword_dict) ==
    LET r == add_keywords_from_dict([trie |-> keyword_trie_dict,
                                     terms |-> terms_in_trie,
                                     registered |-> registered],
                                    keyword_dict, Len(keyword_dict))
    IN  /\ keyword_trie_dict' = r.trie
        /\ terms_in_trie' = r.terms
        /\ registered' = r.registered
        /\ last' = [op |-> "add_keywords_from_dict", raised |-> r.raised]
        /\ UNCHANGED <<case_sensitive, non_word_boundaries, frame, concurrent>>

MaxDictLen == 2

MaxListLen == 2

LoadKeywords == {<<"a">>, <<"a", "b">>, <<"b">>}

LoadCleanNames == {<<"x">>, <<"y">>}

(* the lists of keywords, and a value that is not a list (a str, say),    *)
(* of which the code reads nothing but its type                            *)
LoadValues ==
    {[is_list |-> TRUE, keywords |-> l] :
        l \in UNION {[1..n -> LoadKeywords] : n \in 0..MaxListLen}}
    \cup {[is_list |-> FALSE, keywords |-> <<>>]}

(* dicts of at most MaxDictLen items: the keys of a dict are distinct *)
KeywordDicts ==
    LET item(k, v) == [clean_name |-> k, is_list |-> v.is_list,
                       keywords |-> v.keywords]
    IN  UNION {{d \in [1..n -> {item(k, v) : k \in LoadCleanNames,
                                             v \in LoadValues}] :
                   \A i, j \in 1..n :
                       d[i].clean_name = d[j].clean_name => i = j} :
               n \in 0..MaxDictLen}

LoadNext ==
    \/ \E keyword_dict \in KeywordDicts : AddKeywordsFromDict(keyword_dict)
    \/ \E keyword \in LoadKeywords : RemoveKeyword(keyword)

LoadSpec == Init /\ [][LoadNext]_vars

---------------------------------------------------------------------------
(* The fuzzy example of the docstring of extract_keywords *)

(* add_keyword('Big Apple', 'New York') and add_keyword('Bay Area') *)
FuzzyDocAdds ==
    << [keyword |-> <<"B", "i", "g", " ", "A", "p", "p", "l", "e">>,
        clean_name |-> <<"N", "e", "w", " ", "Y", "o", "r", "k">>],
       [keyword |-> <<"B", "a", "y", " ", "A", "r", "e", "a">>,
        clean_name |-> None] >>

(* 'I love Big Aple and Baay Area.' *)
FuzzyDocSentence ==
    <<"I", " ", "l", "o", "v", "e", " ", "B", "i", "g", " ", "A",
      "p", "l", "e", " ", "a", "n", "d", " ", "B", "a", "a", "y",
      " ", "A", "r", "e", "a", ".">>

(* KeywordProcessor() and the two adds, in the order of the docstring or   *)
(* in the other order                                                      *)
FuzzyDocInit ==
    /\ case_sensitive = FALSE
    /\ non_word_boundaries = DefaultNonWordBoundaries
    /\ \E o \in {f \in [1..Len(FuzzyDocAdds) -> 1..Len(FuzzyDocAdds)] :
                    \A i, j \in 1..Len(FuzzyDocAdds) : f[i] = f[j] => i = j} :
          /\ keyword_trie_dict = add_all(FuzzyDocAdds, o, Len(FuzzyDocAdds)).trie
          /\ terms_in_trie = add_all(FuzzyDocAdds, o, Len(FuzzyDocAdds)).terms
          /\ registered = add_all(FuzzyDocAdds, o, Len(FuzzyDocAdds)).registered
    /\ last = [op |-> "add_keyword", status |-> TRUE, case |-> "no clean_name"]
    /\ frame = idle_frame
    /\ concurrent = idle_frame

FuzzyDocNext ==
    \/ /\ frame.pc = "idle"
       /\ \E i \in 1..Len(FuzzyDocAdds) : RemoveKeyword(FuzzyDocAdds[i].keyword)
    \/ \E span_info \in BOOLEAN, max_cost \in 0..MaxCost :
          CallExtract(FuzzyDocSentence, span_info, max_cost)
    \/ ScanIteration
    \/ LookaheadIteration
    \/ ExitLoop
    \/ Return

FuzzyDocSpec == FuzzyDocInit /\ [][FuzzyDocNext]_vars

---------------------------------------------------------------------------
(* Calls of the fuzzy search *)

(* list(levensthein(word, max_cost, start_node)): the generator run to its *)
(* end, start_node being a dict of the trie                                *)
Levensthein(word, max_cost, start_node) ==
    /\ start_node \in DOMAIN keyword_trie_dict
    /\ last' = [op |-> "levensthein", word |-> word, max_cost |-> max_cost,
                start_node |-> start_node,
                yields |-> levensthein(keyword_trie_dict, word, max_cost,
                                       start_node)]
    /\ UNCHANGED <<keyword_trie_dict, terms_in_trie, case_sensitive,
                   non_word_boundaries, registered, frame, concurrent>>

(* extract_keywords(word, span_info=True, max_cost) on a text of one word *)
ExtractWord(word, max_cost) ==
    /\ last' = [op |-> "extract_keywords", sentence |-> word,
                max_cost |-> max_cost,
                result |-> extract_keywords(word, TRUE, max_cost)]
    /\ UNCHANGED <<keyword_trie_dict, terms_in_trie, case_sensitive,
                   non_word_boundaries, registered, frame, concurrent>>

MaxWordLen == 2

MaxSearchCost == 2

(* patterns of one and of two words, the words separated by the space or   *)
(* by the hyphen                                                           *)
SearchKeywords ==
    {<<"a">>, <<"b">>, <<"a", "b">>, <<"b", "a">>, <<"a", " ", "b">>,
     <<"a", "-", "b">>}

SearchWords == StringsUpTo({"a", "b", "c"}, MaxWordLen)

(* the dicts a trie of these patterns can hold, each named by its path *)
SearchNodes == UNION {{SubSeq(k, 1, n) : n \in 0..Len(k)} : k \in SearchKeywords}

SearchNext ==
    \/ \E keyword \in SearchKeywords : AddKeyword(keyword, None)
    \/ \E keyword \in SearchKeywords : RemoveKeyword(keyword)
    \/ \E word \in SearchWords, max_cost \in 0..MaxSearchCost,
          start_node \in SearchNodes :
          Levensthein(word, max_cost, start_node)
    \/ \E word \in SearchWords, max_cost \in 0..MaxSearchCost :
          ExtractWord(word, max_cost)

SearchSpec == Init /\ [][SearchNext]_vars

---------------------------------------------------------------------------
(* An add followed by the removal of the same keyword *)

(* add_keyword(keyword, clean_name) and then remove_keyword(keyword), for  *)
(* a non-empty keyword that is not registered; case tells how the keyword  *)
(* relates to the registered ones                                          *)
AddThenRemove(keyword, clean_name) ==
    LET a == setitem(keyword_trie_dict, terms_in_trie, keyword, clean_name)
        r == delitem(a.trie, a.terms, keyword)
    IN  /\ keyword # EmptyStr
        /\ fold(keyword) \notin DOMAIN registered
        /\ keyword_trie_dict' = r.trie
        /\ terms_in_trie' = r.terms
        /\ registered' = record_remove(record_add(registered, keyword, clean_name),
                                       keyword)
        /\ last' = [op |-> "add_keyword, remove_keyword",
                    add_status |-> a.status, remove_status |-> r.status,
                    case |-> remove_case(keyword)]
        /\ UNCHANGED <<case_sensitive, non_word_boundaries, frame, concurrent>>

RoundTripNext ==
    \/ \E keyword \in Keywords, clean_name \in CleanNames :
          AddKeyword(keyword, clean_name)
    \/ \E keyword \in Keywords : RemoveKeyword(keyword)
    \/ \E keyword \in Keywords, clean_name \in CleanNames :
          AddThenRemove(keyword, clean_name)

RoundTripSpec == Init /\ [][RoundTripNext]_vars

---------------------------------------------------------------------------
(* Logo filtering (src/robotoff/logos.py) *)

(* Coordinates and scores are floats in the source; they are modelled by   *)
(* integers, and a threshold on the IoU by a fraction <<num, den>>, so     *)
(* that every comparison of the source is exact here.                      *)

max(a, b) == IF a >= b THEN a ELSE b

min(a, b) == IF a <= b THEN a ELSE b

(* compute_iou(box_1, box_2), boxes being <<y_min, x_min, y_max, x_max>>:  *)
(* the quotient area_inter / union_area as a fraction; error is TRUE when  *)
(* the division raises ZeroDivisionError                                   *)
compute_iou(box_1, box_2) ==
    LET y_min_1 == box_1[1]
        x_min_1 == box_1[2]
        y_max_1 == box_1[3]
        x_max_1 == box_1[4]
        y_min_2 == box_2[1]
        x_min_2 == box_2[2]
        y_max_2 == box_2[3]
        x_max_2 == box_2[4]
        x_max == min(x_max_1, x_max_2)
        x_min == max(x_min_1, x_min_2)
        y_max == min(y_max_1, y_max_2)
        y_min == max(y_min_1, y_min_2)
        width_inter == max(0, x_max - x_min)
        height_inter == max(0, y_max - y_min)
        area_inter == width_inter * height_inter
        box_1_area == (x_max_1 - x_min_1) * (y_max_1 - y_min_1)
        box_2_area == (x_max_2 - x_min_2) * (y_max_2 - y_min_2)
        union_area == box_1_area + box_2_area - area_inter
    IN  [error |-> union_area = 0, num |-> area_inter, den |-> union_area]

(* compute_iou(...) >= iou_threshold, for a quotient that is defined; the  *)
(* union area of boxes with y_min <= y_max and x_min <= x_max is not       *)
(* negative                                                                *)
iou_at_least(iou, iou_threshold) ==
    iou.num * iou_threshold[2] >= iou_threshold[1] * iou.den

(* the inner loop of filter_logos for the logo at index i (0-based): the   *)
(* indexes j > i whose box intersects the box of i are added to            *)
(* skip_indexes; error is TRUE when a compute_iou call raises              *)
inner_loop(logos, i, iou_threshold, skip_indexes) ==
    LET js == (i + 1)..(Len(logos) - 1)
        iou(j) == compute_iou(logos[i + 1].bounding_box,
                              logos[j + 1].bounding_box)
    IN  [error |-> \E j \in js : iou(j).error,
         skip_indexes |->
            skip_indexes \cup
            {j \in js : ~iou(j).error /\ iou_at_least(iou(j), iou_threshold)}]

(* one iteration of the outer loop of filter_logos: the inner loop when i  *)
(* is not in skip_indexes, then the test of the score and the append       *)
filter_logos_iteration(f) ==
    LET i == f.i
        logo == f.logos[i + 1]
        inner == IF i \notin f.skip_indexes
                 THEN inner_loop(f.logos, i, f.iou_threshold, f.skip_indexes)
                 ELSE [error |-> FALSE, skip_indexes |-> f.skip_indexes]
    IN  IF inner.error
        THEN [f EXCEPT !.pc = "raised"]
        ELSE [f EXCEPT !.i = i + 1,
                       !.skip_indexes = inner.skip_indexes,
                       !.filtered =
                          IF logo.score >= f.score_threshold
                          THEN Append(@, <<i, logo>>) ELSE @]

(* filter_logos(logos, score_threshold, iou_threshold) is called: frame    *)
(* holds the arguments and the local variables filtered, skip_indexes, i   *)
CallFilterLogos(logos, score_threshold, iou_threshold) ==
    /\ frame.pc = "idle"
    /\ frame' = [pc |-> "filter_logos", logos |-> logos,
                 score_threshold |-> score_threshold,
                 iou_threshold |-> iou_threshold,
                 i |-> 0, filtered |-> <<>>, skip_indexes |-> {}]
    /\ last' = [op |-> "filter_logos"]
    /\ UNCHANGED <<keyword_trie_dict, terms_in_trie, case_sensitive,
                   non_word_boundaries, registered, concurrent>>

(* one iteration of for i in range(len(logos)) *)
FilterLogosIteration ==
    /\ frame.pc = "filter_logos"
    /\ frame.i < Len(frame.logos)
    /\ frame' = filter_logos_iteration(frame)
    /\ UNCHANGED <<keyword_trie_dict, terms_in_trie, case_sensitive,
                   non_word_boundaries, registered, last, concurrent>>

(* the loop has ended: return filtered *)
FilterLogosExit ==
    /\ frame.pc = "filter_logos"
    /\ frame.i >= Len(frame.logos)
    /\ frame' = [frame EXCEPT !.pc = "returned"]
    /\ UNCHANGED <<keyword_trie_dict, terms_in_trie, case_sensitive,
                   non_word_boundaries, registered, last, concurrent>>

(* the call returns (or raises) to its caller *)
FilterLogosReturn ==
    /\ frame.pc \in {"returned", "raised"}
    /\ frame' = idle_frame
    /\ last' = [op |-> "filter_logos", raised |-> frame.pc = "raised",
                returned |-> Len(frame.filtered)]
    /\ UNCHANGED <<keyword_trie_dict, terms_in_trie, case_sensitive,
                   non_word_boundaries, registered, concurrent>>

(* the inputs: lists of up to MaxLogos logos sorted by descending score,   *)
(* their boxes taken from a square, its two halves and an empty box        *)
MaxLogos == 3

MaxScore == 3

Boxes == {<<0, 0, 2, 2>>, <<0, 0, 2, 1>>, <<0, 1, 2, 2>>, <<0, 0, 0, 0>>}

Logos == [bounding_box : Boxes, score : 1..MaxScore]

RECURSIVE LogoListsOfLen(_)
LogoListsOfLen(n) ==
    IF n = 0 THEN {<<>>}
    ELSE {Append(l, logo) : l \in LogoListsOfLen(n - 1), logo \in Logos}

sorted_by_descending_score(logos) ==
    \A i \in 1..(Len(logos) - 1) : logos[i].score >= logos[i + 1].score

LogoLists ==
    {l \in UNION {LogoListsOfLen(n) : n \in 0..MaxLogos} :
        sorted_by_descending_score(l)}

(* 0.5 and the default 0.95 *)
IouThresholds == {<<1, 2>>, <<19, 20>>}

LogosNext ==
    \/ \E logos \in LogoLists, score_threshold \in 1..MaxScore,
          iou_threshold \in IouThresholds :
          CallFilterLogos(logos, score_threshold, iou_threshold)
    \/ FilterLogosIteration
    \/ FilterLogosExit
    \/ FilterLogosReturn

LogosSpec == Init /\ [][LogosNext]_vars

---------------------------------------------------------------------------
(* Properties of the trie store and of its mutation *)

TerminalDicts == {p \in DOMAIN keyword_trie_dict :
                      HasKey(keyword_trie_dict, p, KEYWORD)}

ValidAdd(keyword, clean_name) == keyword # EmptyStr /\ clean_name # EmptyStr

CleanNameOf(keyword, clean_name) ==
    IF clean_name = None THEN keyword ELSE clean_name

ReadOps == {"__contains__", "get_keyword", "get_all_keywords",
            "extract_keywords"}

(* C1: after any sequence of add and remove calls, contains(S) is true,    *)
(* i.e. the dict at the end of the path spelling S (case-folded when the   *)
(* matcher is case-insensitive) holds a terminal slot, if and only if S    *)
(* was added and has not been removed by a later remove                    *)
TerminalIffRegistered ==
    /\ \A S \in Keywords : contains(S) <=> fold(S) \in DOMAIN registered
    /\ TerminalDicts = DOMAIN registered

(* a pattern was removed while a longer pattern on the same path stays *)
TerminalIffRegisteredWitness ==
    /\ last.op = "remove_keyword" /\ last.status
    /\ last.case = "registered prefix"
    /\ \E S \in Keywords : contains(S)

(* C2: len(matcher) equals the number of distinct registered (case-folded) *)
(* patterns, which is the number of terminal slots of the trie and the     *)
(* number of entries of get_all_keywords(); it is never negative           *)
CountIsNumberOfRegistered ==
    /\ terms_in_trie = Cardinality(DOMAIN registered)
    /\ terms_in_trie = Cardinality(TerminalDicts)
    /\ terms_in_trie = Cardinality(DOMAIN get_all_keywords)
    /\ terms_in_trie >= 0

(* an existing pattern was registered again while MaxTerms are registered *)
CountIsNumberOfRegisteredWitness ==
    /\ last.op = "add_keyword" /\ ~last.status
    /\ last.case \in {"clean_name", "no clean_name"}
    /\ terms_in_trie = MaxTerms

(* C3: add(pattern, value) with a pattern and a value returns true iff the *)
(* (case-folded) pattern was not registered before the call, and then the  *)
(* count increases by one; if the pattern was registered it returns false, *)
(* the count is unchanged and get(pattern) returns the new value           *)
AddReturnsWhetherNew ==
    [][\A keyword \in Keywords, clean_name \in CleanNames :
          (/\ last'.op = "add_keyword"
           /\ ValidAdd(keyword, clean_name)
           /\ AddKeyword(keyword, clean_name)) =>
             /\ last'.status = ~contains(keyword)
             /\ terms_in_trie' =
                   IF contains(keyword) THEN terms_in_trie ELSE terms_in_trie + 1
             /\ getitem_in(keyword_trie_dict', fold(keyword)) =
                   CleanNameOf(keyword, clean_name)]_vars

(* a registered pattern was added again with another value *)
AddReturnsWhetherNewWitness ==
    /\ last.op = "add_keyword" /\ ~last.status /\ last.case = "clean_name"
    /\ \E t \in DOMAIN registered : registered[t] = <<"x">>
    /\ terms_in_trie = 1

(* C4, as stated: add with an empty pattern or with a missing value (None) *)
(* is a no-op returning false                                              *)
AddWithoutValueIsNoOp ==
    [][\A keyword \in Keywords, clean_name \in CleanNames :
          (/\ last'.op = "add_keyword"
           /\ (keyword = EmptyStr \/ clean_name = None)
           /\ AddKeyword(keyword, clean_name)) =>
             (~last'.status /\ UNCHANGED matcher)]_vars

(* C4, amended: add with an empty pattern, or with a value that is given   *)
(* and empty, is a no-op: it returns false and leaves the trie and the     *)
(* count unchanged                                                         *)
AddEmptyIsNoOp ==
    [][\A keyword \in Keywords, clean_name \in CleanNames :
          (/\ last'.op = "add_keyword"
           /\ ~ValidAdd(keyword, clean_name)
           /\ AddKeyword(keyword, clean_name)) =>
             (~last'.status /\ UNCHANGED matcher)]_vars

(* an empty value was added to a matcher that holds patterns *)
AddEmptyIsNoOpWitness ==
    /\ last.op = "add_keyword" /\ last.case = "empty clean_name"
    /\ terms_in_trie > 0

(* C5: add(pattern) without a value registers the pattern with the pattern *)
(* as passed (not case-folded) as its value: get(pattern) returns it and   *)
(* extracting from the pattern yields it                                   *)
AddDefaultsToPattern ==
    [][\A keyword \in Keywords \ {EmptyStr} :
          (last'.op = "add_keyword" /\ AddKeyword(keyword, None)) =>
             /\ getitem_in(keyword_trie_dict', fold(keyword)) = keyword
             /\ LET found == extract_keywords_in(keyword_trie_dict',
                                 non_word_boundaries, case_sensitive,
                                 keyword, FALSE, 0)
                IN  ~found.error /\ found.keywords = <<keyword>>]_vars

(* a pattern whose case-folded form differs from it was added that way *)
AddDefaultsToPatternWitness ==
    /\ last.op = "add_keyword" /\ last.status /\ last.case = "no clean_name"
    /\ \E t \in DOMAIN registered :
          /\ registered[t] # t
          /\ registered[t] \notin CleanNames
    /\ terms_in_trie = 1

(* C6: remove(pattern) of a pattern that is not registered (the empty      *)
(* pattern, a proper prefix or an extension of a registered pattern        *)
(* included) returns false and leaves the trie, its values and the count   *)
(* unchanged                                                               *)
RemoveUnregisteredIsNoOp ==
    [][\A keyword \in Keywords :
          (/\ last'.op = "remove_keyword"
           /\ ~contains(keyword)
           /\ RemoveKeyword(keyword)) =>
             (~last'.status /\ UNCHANGED matcher)]_vars

(* the removal of a proper prefix of a registered pattern was tried *)
RemoveUnregisteredIsNoOpWitness ==
    /\ last.op = "remove_keyword" /\ ~last.status /\ last.case = "prefix"
    /\ terms_in_trie > 0

(* C7: after remove(p) of a registered pattern p, lookup of p returns      *)
(* absent and every other registered pattern q (a proper prefix of p, an   *)
(* extension of p or one sharing a prefix with p included) is still        *)
(* registered with its value and is still extracted                        *)
RemoveKeepsOtherPatterns ==
    [][\A keyword \in Keywords :
          (/\ last'.op = "remove_keyword"
           /\ contains(keyword)
           /\ RemoveKeyword(keyword)) =>
             /\ last'.status
             /\ ~contains_in(keyword_trie_dict', fold(keyword))
             /\ getitem_in(keyword_trie_dict', fold(keyword)) = None
             /\ \A q \in DOMAIN registered \ {fold(keyword)} :
                   /\ contains_in(keyword_trie_dict', q)
                   /\ getitem_in(keyword_trie_dict', q) = registered[q]
                   /\ LET found == extract_keywords_in(keyword_trie_dict',
                                       non_word_boundaries, case_sensitive,
                                       q, FALSE, 0)
                      IN  ~found.error /\ found.keywords = <<registered[q]>>]_vars

(* a pattern was removed while a proper prefix of it stays registered *)
RemoveKeepsOtherPatternsWitness ==
    /\ last.op = "remove_keyword" /\ last.status
    /\ last.case = "registered extension"
    /\ terms_in_trie = 1

(* the strings that differ from s in the case of some characters *)
char_variants(c) == {<<c>>, upper_char(c), lower_char(c)}

RECURSIVE case_variants(_)
case_variants(s) ==
    IF s = <<>> THEN {<<>>}
    ELSE {v \o rest : v \in char_variants(Head(s)),
                      rest \in case_variants(Tail(s))}

CaseVariantOf(word, pattern) ==
    word \in case_variants(pattern) \/ pattern \in case_variants(word)

(* C8: with case_sensitive = false, for every registered (pattern, value)  *)
(* and every case-variant of the pattern, contains(variant) is true and    *)
(* get(variant) returns the value; adding a case-variant of a registered   *)
(* pattern registers no new pattern                                        *)
CaseVariantsFindPattern ==
    /\ [](~case_sensitive =>
            \A t \in DOMAIN registered :
               \A word \in Keywords \cup case_variants(t) :
                  CaseVariantOf(word, t) =>
                     contains(word) /\ get_keyword(word) = registered[t])
    /\ [][\A keyword \in Keywords, clean_name \in CleanNames :
            (/\ ~case_sensitive
             /\ last'.op = "add_keyword"
             /\ ValidAdd(keyword, clean_name)
             /\ \E t \in DOMAIN registered : CaseVariantOf(keyword, t)
             /\ AddKeyword(keyword, clean_name)) =>
               (~last'.status /\ terms_in_trie' = terms_in_trie)]_vars

(* a pattern and a case-variant of it with another length were both added  *)
(* to a case-insensitive matcher                                           *)
CaseVariantsFindPatternWitness ==
    /\ ~case_sensitive
    /\ last.op = "add_keyword" /\ ~last.status /\ last.case = "clean_name"
    /\ \E t \in DOMAIN registered :
          /\ COMBINING_DOT_ABOVE \in Range(t)
          /\ \E word \in Keywords :
                CaseVariantOf(word, t) /\ Len(word) # Len(t) /\ contains(word)

(* C9: get_all_keywords() is exactly the mapping from each registered      *)
(* pattern (case-folded when the matcher is case-insensitive) to the value *)
(* most recently added for it                                              *)
AllKeywordsAreRegistered == get_all_keywords = registered

(* the keywords were listed while a registered pattern has a prefix that   *)
(* is not registered                                                       *)
AllKeywordsAreRegisteredWitness ==
    /\ last.op = "get_all_keywords"
    /\ DOMAIN last.result # {}
    /\ \E t \in DOMAIN last.result :
          Len(t) > 1 /\ SubSeq(t, 1, 1) \notin DOMAIN last.result
    /\ terms_in_trie = MaxTerms

(* C10: contains, get, get_all_keywords and extract_keywords (for any text *)
(* and any max_cost, fuzzy search included) leave the trie, its values,    *)
(* the count and the configuration of the matcher unchanged                *)
LookupsLeaveMatcherUnchanged ==
    [][last'.op \in ReadOps => UNCHANGED matcher]_vars

(* an extraction that made a fuzzy search returned a match *)
LookupsLeaveMatcherUnchangedWitness ==
    /\ last.op = "extract_keywords"
    /\ last.result.fuzzy_calls > 0
    /\ last.result.keywords # <<>>
    /\ terms_in_trie > 0

---------------------------------------------------------------------------
(* Properties of extraction *)

(* text[start:end] of Python, start and end being 0-based offsets *)
Slice(text, start, end) == SubSeq(text, start + 1, end)

(* a call of extract_keywords has reached its return statement *)
Done == frame.pc = "done"

(* the matches of the running call in the offsets of the text the scan     *)
(* reads (the lower-cased text of a case-insensitive matcher): the scan    *)
(* of that text without index mapping                                      *)
scan_matches ==
    extract_keywords_in(keyword_trie_dict, non_word_boundaries, TRUE,
                        frame.sentence, TRUE, frame.max_cost).keywords

(* the registered pattern p occurs in the scanned text at offset s and     *)
(* ends at a boundary character or at the end of the text                  *)
OccursAt(p, s) ==
    /\ s + Len(p) <= Len(frame.sentence)
    /\ Slice(frame.sentence, s, s + Len(p)) = p
    /\ \/ s + Len(p) = Len(frame.sentence)
       \/ frame.sentence[s + Len(p) + 1] \notin non_word_boundaries

(* the orders in which the patterns of S can be added *)
Orders(S) ==
    {o \in [1..Cardinality(S) -> S] :
        \A i, j \in 1..Cardinality(S) : o[i] = o[j] => i = j}

(* the trie after adding the registered patterns in the order o *)
RECURSIVE trie_of(_, _)
trie_of(o, n) ==
    IF n = 0 THEN [p \in {Root} |-> EmptyDict]
    ELSE setitem(trie_of(o, n - 1), n - 1, o[n], registered[o[n]]).trie

(* C11: with max_cost = 0, when several registered patterns match the text *)
(* at the same candidate start, each ending at a boundary character or at  *)
(* the end of the input, only the one with the greatest end offset is      *)
(* emitted (at offset 0, the first candidate start, it is emitted), and    *)
(* the result is the same for every order in which the patterns were added *)
LongestMatchAnyOrder ==
    Done /\ frame.max_cost = 0 =>
        /\ \A i \in 1..Len(scan_matches) :
              /\ \A p \in DOMAIN registered :
                    OccursAt(p, scan_matches[i][2]) =>
                        scan_matches[i][2] + Len(p) <= scan_matches[i][3]
              /\ \A j \in 1..Len(scan_matches) :
                    scan_matches[i][2] = scan_matches[j][2] => i = j
        /\ (\E p \in DOMAIN registered : OccursAt(p, 0)) =>
              /\ scan_matches # <<>>
              /\ scan_matches[1][2] = 0
              /\ OccursAt(Slice(frame.sentence, 0, scan_matches[1][3]), 0)
        /\ \A o \in Orders(DOMAIN registered) :
              extract_keywords_in(trie_of(o, Len(o)), non_word_boundaries,
                                  case_sensitive, frame.sentence_arg, TRUE, 0
                                 ).keywords
                 = frame.st.keywords_extracted

(* two registered patterns occur at the start of a match and end at        *)
(* different offsets; the longer one was emitted                           *)
LongestMatchAnyOrderWitness ==
    /\ Done
    /\ frame.max_cost = 0
    /\ \E i \in 1..Len(scan_matches) :
          \E p, q \in DOMAIN registered :
             /\ Len(p) < Len(q)
             /\ OccursAt(p, scan_matches[i][2])
             /\ OccursAt(q, scan_matches[i][2])
             /\ scan_matches[i][3] = scan_matches[i][2] + Len(q)

(* a call of extract_keywords is running or has reached its return *)
Called == frame.pc # "idle"

(* C12: the matches of one extract call are in strictly increasing text    *)
(* order and do not overlap (each ends at or before the start of the       *)
(* next), and no iteration of the scan emits more than one match (no       *)
(* double emission, also at the end of the input)                          *)
MatchesOrderedAndDisjoint ==
    /\ [](Called =>
            \A i \in 1..(Len(frame.st.keywords_extracted) - 1) :
               /\ frame.st.keywords_extracted[i][2]
                     < frame.st.keywords_extracted[i + 1][2]
               /\ frame.st.keywords_extracted[i][3]
                     <= frame.st.keywords_extracted[i + 1][2])
    /\ [][frame.pc \in {"scan", "lookahead"} =>
            /\ Len(frame'.st.keywords_extracted)
                  <= Len(frame.st.keywords_extracted) + 1
            /\ SubSeq(frame'.st.keywords_extracted, 1,
                      Len(frame.st.keywords_extracted))
                  = frame.st.keywords_extracted]_vars

(* a call emitted two matches, the second one at the end of the input out  *)
(* of the lookahead loop                                                   *)
MatchesOrderedAndDisjointWitness ==
    /\ Done
    /\ Len(frame.st.keywords_extracted) = 2
    /\ frame.st.keywords_extracted[2][3] = Len(frame.sentence_arg)
    /\ frame.st.idx > Len(frame.sentence)

(* C13: on the case-insensitive matcher of the docstring example, with     *)
(* "NY" and "new-york" registered for "new york" and "SF" for              *)
(* "san francisco", extract("I love SF and NY. new-york is the best.")     *)
(* returns ["san francisco", "new york", "new york"]: one value per match  *)
(* in text order, equal values of different patterns included              *)
DocExampleResult ==
    /\ Done
    /\ frame.sentence_arg = DocSentence
    /\ Cardinality(DOMAIN registered) = Len(DocAdds)
    => /\ ~frame.span_info =>
            frame.result.keywords =
                <<DocAdds[3].clean_name, DocAdds[1].clean_name,
                  DocAdds[2].clean_name>>
       /\ frame.span_info =>
            frame.result.keywords =
                << <<DocAdds[3].clean_name, 7, 9>>,
                   <<DocAdds[1].clean_name, 14, 16>>,
                   <<DocAdds[2].clean_name, 18, 26>> >>
       /\ ~frame.result.error

(* the example's call has returned its three values, the patterns having   *)
(* been added in the order of the docstring                                *)
DocExampleResultWitness ==
    /\ Done
    /\ frame.sentence_arg = DocSentence
    /\ ~frame.span_info
    /\ Len(frame.result.keywords) = 3
    /\ frame.result.keywords[2] = frame.result.keywords[3]
    /\ keyword_trie_dict[Root].keys = <<"n", "s">>
    /\ terms_in_trie = 3

(* C14: after a match is emitted the scan resumes at the character         *)
(* immediately after it: the character at the emitted end offset is        *)
(* examined from the root, so that (with max_cost = 0) a registered        *)
(* pattern occurring exactly at the end offset of a match, up to a         *)
(* boundary character or the end of the input, is found as a match         *)
(* starting at that offset                                                 *)
PatternAtEndOfMatchIsFound ==
    Done /\ frame.max_cost = 0 =>
        \A i \in 1..Len(scan_matches) :
            (\E p \in DOMAIN registered : OccursAt(p, scan_matches[i][3])) =>
                \E j \in 1..Len(scan_matches) :
                    scan_matches[j][2] = scan_matches[i][3]

(* C15: with max_cost = 0 and span mode, for every returned (value, start, *)
(* end) the substring text[start:end] of the original input, case-folded   *)
(* when the matcher is case-insensitive, is a registered pattern and value *)
(* is the value registered for it                                          *)
SpansDelimitRegisteredPatterns ==
    Done /\ frame.max_cost = 0 /\ frame.span_info =>
        \A i \in 1..Len(frame.result.keywords) :
            /\ fold(Slice(frame.sentence_arg, frame.result.keywords[i][2],
                          frame.result.keywords[i][3])) \in DOMAIN registered
            /\ registered[fold(Slice(frame.sentence_arg,
                                     frame.result.keywords[i][2],
                                     frame.result.keywords[i][3]))]
                  = frame.result.keywords[i][1]

(* C16: under case-insensitive matching, for an input containing U+0130    *)
(* (before the match, inside it, or as its first or last character) every  *)
(* reported span is in offsets of the original string and the original     *)
(* substring text[start:end], case-folded, is the registered pattern that  *)
(* matched                                                                 *)
SpansInOriginalOffsetsWithDotI ==
    /\ Done
    /\ ~case_sensitive
    /\ LATIN_CAPITAL_LETTER_I_WITH_DOT_ABOVE \in Range(frame.sentence_arg)
    /\ frame.max_cost = 0
    => \A i \in 1..Len(frame.st.keywords_extracted) :
          /\ 0 <= frame.st.keywords_extracted[i][2]
          /\ frame.st.keywords_extracted[i][2] < frame.st.keywords_extracted[i][3]
          /\ frame.st.keywords_extracted[i][3] <= Len(frame.sentence_arg)
          /\ \E p \in DOMAIN registered :
                /\ registered[p] = frame.st.keywords_extracted[i][1]
                /\ p = lower(Slice(frame.sentence_arg,
                                   frame.st.keywords_extracted[i][2],
                                   frame.st.keywords_extracted[i][3]))

(* C17: with max_cost = 0 every emitted match starts at offset 0 or right  *)
(* after a boundary character and ends at the end of the input or right    *)
(* before a boundary character, so that an occurrence of a pattern that    *)
(* begins inside a run of word characters or is followed by a word         *)
(* character is never emitted                                              *)
MatchesDelimitedByBoundaries ==
    Done /\ frame.max_cost = 0 =>
        \A i \in 1..Len(frame.st.keywords_extracted) :
            /\ \/ frame.st.keywords_extracted[i][2] = 0
               \/ frame.sentence_arg[frame.st.keywords_extracted[i][2]]
                     \notin non_word_boundaries
            /\ \/ frame.st.keywords_extracted[i][3] = Len(frame.sentence_arg)
               \/ frame.sentence_arg[frame.st.keywords_extracted[i][3] + 1]
                     \notin non_word_boundaries

(* the emitted matches that end at the end of the input *)
EmittedAtEnd ==
    {i \in 1..Len(frame.st.keywords_extracted) :
        frame.st.keywords_extracted[i][3] = Len(frame.sentence_arg)}

(* the outer loop has ended with its cursor on a terminal of the trie      *)
(* (reached by stepping over word characters or by a fuzzy step)           *)
EndsOnTerminal ==
    /\ frame.pc \in {"scan", "done"}
    /\ frame.sentence_arg # EmptyStr
    /\ frame.st.idx >= Len(frame.sentence)
    /\ HasKey(keyword_trie_dict, frame.st.current_dict, KEYWORD)

(* C18: a match that ends at the last character of the input is emitted    *)
(* exactly once, with end offset equal to the length of the input: when    *)
(* the outer loop ends with its cursor on a terminal (after plain          *)
(* stepping or a fuzzy step) the last emitted match is the value of that   *)
(* terminal and is the only one ending at the length of the input, and     *)
(* when the lookahead loop reaches the end of the sentence on a terminal   *)
(* its iteration emits exactly one match, the value of that terminal       *)
(* ending at the length of the input, no earlier match ending there        *)
MatchAtEndEmittedOnce ==
    /\ [](EndsOnTerminal =>
            /\ EmittedAtEnd = {Len(frame.st.keywords_extracted)}
            /\ frame.st.keywords_extracted[Len(frame.st.keywords_extracted)][1]
                  = keyword_trie_dict[frame.st.current_dict].clean_name)
    /\ [][/\ frame.pc = "lookahead"
          /\ frame.la.idy >= Len(frame.sentence)
          /\ HasKey(keyword_trie_dict, frame.la.current_dict_continued, KEYWORD)
          => /\ EmittedAtEnd = {}
             /\ frame'.st.keywords_extracted =
                   Append(frame.st.keywords_extracted,
                          <<keyword_trie_dict[frame.la.current_dict_continued
                                             ].clean_name,
                            frame'.st.keywords_extracted[
                               Len(frame'.st.keywords_extracted)][2],
                            Len(frame.sentence_arg)>>)
             /\ frame'.pc = "scan"
             /\ frame'.st.idx > Len(frame.sentence)
             /\ frame'.st.current_dict = Root]_vars

(* a call has returned after a fuzzy step put the cursor on a terminal at  *)
(* the end of the input, a first match having been emitted before          *)
MatchAtEndEmittedOnceWitness ==
    /\ Done
    /\ EndsOnTerminal
    /\ frame.st.fuzzy_calls > 0
    /\ Len(frame.st.keywords_extracted) = 2

(* C19: a call of extract_keywords terminates in its return statement for  *)
(* every text, every trie built by adds and removes and every max_cost:    *)
(* every iteration of the outer loop strictly increases the scan offset    *)
(* idx (which never passes the end of the sentence by more than one),      *)
(* every iteration that stays in the lookahead loop either advances idy    *)
(* or (the fuzzy step on an empty word at a boundary character) keeps idy  *)
(* and moves to a deeper node of the trie, idy never passing the end of    *)
(* the sentence, and a call that has started reaches its return statement  *)
ExtractTerminates ==
    /\ [](frame.pc = "scan" /\ frame.st.idx < Len(frame.sentence) =>
            \/ /\ outer_iteration(frame).pc = "lookahead"
               /\ outer_iteration(frame).la.idy = frame.st.idx + 1
            \/ /\ outer_iteration(frame).pc \in {"scan", "raised"}
               /\ outer_iteration(frame).st.idx > frame.st.idx
               /\ outer_iteration(frame).st.idx <= Len(frame.sentence) + 1)
    /\ [](frame.pc = "lookahead" =>
            \/ /\ inner_iteration(frame).pc = "lookahead"
               /\ inner_iteration(frame).st = frame.st
               /\ \/ inner_iteration(frame).la.idy > frame.la.idy
                  \/ /\ inner_iteration(frame).la.idy = frame.la.idy
                     /\ Len(inner_iteration(frame).la.current_dict_continued)
                           > Len(frame.la.current_dict_continued)
               /\ inner_iteration(frame).la.idy <= Len(frame.sentence)
               /\ inner_iteration(frame).la.current_dict_continued
                     \in DOMAIN keyword_trie_dict
            \/ /\ inner_iteration(frame).pc \in {"scan", "raised"}
               /\ inner_iteration(frame).st.idx > frame.st.idx
               /\ inner_iteration(frame).st.idx <= Len(frame.sentence) + 1)
    /\ [](Called => <>Done)

(* the lookahead loop has taken a fuzzy step on an empty word: idy is      *)
(* where the loop started and the node is two levels below the one the     *)
(* loop was entered from                                                   *)
ExtractTerminatesWitness ==
    /\ frame.pc = "lookahead"
    /\ frame.la.idy = frame.st.idx + 1
    /\ frame.la.fuzzy_calls > frame.st.fuzzy_calls
    /\ Len(frame.la.current_dict_continued) = Len(frame.st.current_dict) + 2

(* C20: extract_keywords never raises, whatever the text, the trie (the    *)
(* empty one included), max_cost, the span mode and the presence of        *)
(* U+0130 in the text: no iteration indexes the index mapping out of       *)
(* range, the offsets the loops read the text at are inside it, and the    *)
(* call on the empty string returns the empty list                         *)
ExtractNeverRaises ==
    /\ frame.pc # "raised"
    /\ Called => ~frame.st.error
    /\ frame.pc = "scan" => frame.st.idx >= 0
    /\ frame.pc = "lookahead" =>
          /\ frame.st.idx >= 0 /\ frame.st.idx < Len(frame.sentence)
          /\ frame.la.idy >= 0
    /\ Done => ~frame.result.error
    /\ Done /\ frame.sentence_arg = EmptyStr => frame.result.keywords = <<>>
    /\ Done /\ terms_in_trie = 0 => frame.result.keywords = <<>>

(* a case-insensitive call in span mode on a text with a U+0130 has        *)
(* returned a match found after a fuzzy search                             *)
ExtractNeverRaisesWitness ==
    /\ Done
    /\ ~case_sensitive
    /\ frame.span_info
    /\ frame.index_mapping # None
    /\ frame.st.fuzzy_calls > 0
    /\ frame.result.keywords # <<>>

(* C21: the result of an extract call is determined by the matcher, the    *)
(* text, the span mode and max_cost: whatever calls came before, a call    *)
(* that has reached its end holds the value of extract_keywords on the     *)
(* matcher as it is; a call changes nothing of the matcher, and nothing of *)
(* a call is left in the frame once it has returned                        *)
ExtractIsDeterministic ==
    /\ [](frame.pc \in {"done", "raised"} =>
            frame.result = extract_keywords(frame.sentence_arg,
                                            frame.span_info, frame.max_cost))
    /\ [](frame.pc = "idle" => frame = idle_frame)
    /\ [][frame.pc # "idle" \/ frame'.pc # "idle" => matcher' = matcher]_vars

(* a call that made a fuzzy search and found a match has returned: the     *)
(* next call starts from here                                              *)
ExtractIsDeterministicWitness ==
    /\ frame.pc = "idle"
    /\ last.op = "extract_keywords"
    /\ "result" \in DOMAIN last
    /\ last.result.fuzzy_calls > 0
    /\ last.result.keywords # <<>>
    /\ terms_in_trie = 2

(* C22: two extract calls that run at the same time on a built matcher,    *)
(* their steps interleaved in any order and no add or remove running,      *)
(* each return what the call returns when it runs alone (the value of      *)
(* extract_keywords on the matcher): neither raises, a step of one call    *)
(* changes nothing of the other call, and no step changes the matcher      *)
ConcurrentCallsReturnAsAlone ==
    /\ [](frame.pc = "done" =>
            frame.result = extract_keywords(frame.sentence_arg,
                                            frame.span_info, frame.max_cost))
    /\ [](concurrent.pc = "done" =>
            concurrent.result = extract_keywords(concurrent.sentence_arg,
                                                 concurrent.span_info,
                                                 concurrent.max_cost))
    /\ [](frame.pc # "raised" /\ concurrent.pc # "raised")
    /\ [][/\ matcher' = matcher
          /\ frame' = frame \/ concurrent' = concurrent]_vars

(* one call has reached its return statement with a match found by a fuzzy *)
(* search while the other, on another text and without budget, is inside   *)
(* its lookahead loop                                                      *)
ConcurrentCallsReturnAsAloneWitness ==
    /\ frame.pc = "done"
    /\ frame.result.keywords # <<>>
    /\ frame.st.fuzzy_calls > 0
    /\ concurrent.pc = "lookahead"
    /\ concurrent.max_cost = 0
    /\ concurrent.sentence_arg # frame.sentence_arg

(* C23: add_keywords_from_dict is all-or-nothing: when a value of the dict *)
(* is not a list the call raises and has registered no pattern of the      *)
(* dict, the trie and the count being as they were before the call,        *)
(* wherever the malformed item stands in the dict                          *)
LoadIsAllOrNothing ==
    [][last'.op = "add_keywords_from_dict" /\ last'.raised =>
          /\ keyword_trie_dict' = keyword_trie_dict
          /\ terms_in_trie' = terms_in_trie]_vars

(* C24: on the case-insensitive matcher with add("Big Apple", "New York")  *)
(* and add("Bay Area"), extract("I love Big Aple and Baay Area.",          *)
(* max_cost=1) returns ["New York", "Bay Area"]: the letter missing from   *)
(* "Aple" and the letter added to "Baay" are each tolerated, the budget    *)
(* spent on the first match being available again for the second           *)
FuzzyDocExampleResult ==
    /\ Done
    /\ frame.sentence_arg = FuzzyDocSentence
    /\ frame.max_cost = 1
    /\ Cardinality(DOMAIN registered) = Len(FuzzyDocAdds)
    => /\ ~frame.span_info =>
            frame.result.keywords =
                <<FuzzyDocAdds[1].clean_name, FuzzyDocAdds[2].keyword>>
       /\ frame.span_info =>
            frame.result.keywords =
                << <<FuzzyDocAdds[1].clean_name, 7, 15>>,
                   <<FuzzyDocAdds[2].keyword, 20, 29>> >>
       /\ ~frame.result.error

(* the example's call has returned its two values, each found with one     *)
(* fuzzy step, the patterns having been added in the order of the          *)
(* docstring                                                               *)
FuzzyDocExampleResultWitness ==
    /\ Done
    /\ frame.sentence_arg = FuzzyDocSentence
    /\ frame.max_cost = 1
    /\ ~frame.span_info
    /\ Len(frame.result.keywords) = 2
    /\ frame.st.fuzzy_calls >= 2
    /\ terms_in_trie = 2
    /\ keyword_trie_dict[<<"b">>].keys = <<"i", "a">>

(* the Levenshtein distance of two strings *)
RECURSIVE levenshtein_distance(_, _)
levenshtein_distance(a, b) ==
    IF Len(a) = 0 THEN Len(b)
    ELSE IF Len(b) = 0 THEN Len(a)
    ELSE LET insert_cost  == levenshtein_distance(a, Tail(b)) + 1
             delete_cost  == levenshtein_distance(Tail(a), b) + 1
             replace_cost == levenshtein_distance(Tail(a), Tail(b))
                             + (IF Head(a) # Head(b) THEN 1 ELSE 0)
             m1 == IF insert_cost <= delete_cost THEN insert_cost
                   ELSE delete_cost
         IN  IF m1 <= replace_cost THEN m1 ELSE replace_cost

(* C25: for every match emitted by extract(text, max_cost=k) the           *)
(* Levenshtein distance between the registered pattern that was matched    *)
(* and the case-folded text covered by the span is at most k (with k = 0   *)
(* the covered text is the pattern; with k > 0 the edit cost of all the    *)
(* fuzzy steps of one match together does not exceed k)                    *)
MatchesWithinBudget ==
    Done =>
        \A i \in 1..Len(scan_matches) :
            /\ fold(scan_matches[i][1]) \in DOMAIN registered
            /\ levenshtein_distance(
                   fold(scan_matches[i][1]),
                   Slice(frame.sentence, scan_matches[i][2],
                         scan_matches[i][3])) <= frame.max_cost

(* the last operation was a run of the fuzzy search *)
Searched == last.op = "levensthein"

(* the dict the search starts from: start_node, or the root when           *)
(* start_node is empty                                                     *)
search_root ==
    IF keyword_trie_dict[last.start_node].keys = <<>> THEN Root
    ELSE last.start_node

(* the dicts below the start of the search, and the string spelled by the  *)
(* path from the start to such a dict                                      *)
Below == {n \in DOMAIN keyword_trie_dict :
             /\ Len(n) > Len(search_root)
             /\ SubSeq(n, 1, Len(search_root)) = search_root}

spelled(n) == SubSeq(n, Len(search_root) + 1, Len(n))

(* the branch to n is within the budget: the last cell of its row, the     *)
(* distance of the word to the path                                        *)
WithinBudget(n) ==
    levenshtein_distance(last.word, spelled(n)) <= last.max_cost

(* the minimum of the row of n is within the budget: the cells of the row  *)
(* are the distances of the prefixes of the word to the path               *)
RowMinWithinBudget(n) ==
    \E j \in 0..Len(last.word) :
        levenshtein_distance(SubSeq(last.word, 1, j), spelled(n)) <= last.max_cost

(* n is terminal or has an edge labelled with a boundary character *)
EndsWord(n) ==
    \/ HasKey(keyword_trie_dict, n, KEYWORD)
    \/ \E c \in Range(keyword_trie_dict[n].keys) \ {KEYWORD} :
          c \notin non_word_boundaries

(* the branches the search reaches: no dict on the way was accepted or     *)
(* pruned                                                                  *)
Explored(n) ==
    \A a \in Below :
        Len(a) < Len(n) /\ SubSeq(n, 1, Len(a)) = a =>
            /\ ~(EndsWord(a) /\ WithinBudget(a))
            /\ RowMinWithinBudget(a)

yielded_nodes == {last.yields[i].node : i \in 1..Len(last.yields)}

(* C26: the fuzzy search accepts a branch exactly when its dict is         *)
(* terminal or has an edge labelled with a boundary character (one outside *)
(* non_word_boundaries) and its cost is within the budget, and it does not *)
(* go below a dict whose row minimum exceeds the budget                    *)
SearchAcceptsAtWordEnds ==
    Searched =>
        yielded_nodes = {n \in Below : Explored(n) /\ EndsWord(n)
                                       /\ WithinBudget(n)}

(* m comes before n in the depth-first walk that visits the keys of each   *)
(* dict in their order of insertion, neither being above the other         *)
DfsBefore(m, n) ==
    \E k \in 1..Len(m) :
        /\ k <= Len(n)
        /\ SubSeq(m, 1, k - 1) = SubSeq(n, 1, k - 1)
        /\ LET keys == keyword_trie_dict[SubSeq(m, 1, k - 1)].keys
               pos(c) == CHOOSE i \in 1..Len(keys) : keys[i] = c
           IN  pos(m[k]) < pos(n[k])

(* a text of one word whose first character has no edge from the root:     *)
(* the scan runs the fuzzy search of the word from the root                *)
ExtractedByRootSearch ==
    /\ last.op = "extract_keywords"
    /\ last.max_cost > 0
    /\ last.sentence # <<>>
    /\ ~HasKey(keyword_trie_dict, Root, last.sentence[1])

(* what the fuzzy search of that word from the root yields *)
root_search ==
    levensthein(keyword_trie_dict, last.sentence, last.max_cost, Root)

(* C27: the fuzzy search yields the accepted dicts in depth-first order,   *)
(* the keys of each dict taken in insertion order, each with its cost and  *)
(* depth, and extract uses the first one, whether or not a later one has a *)
(* smaller cost (so that the result of a fuzzy extraction can depend on    *)
(* the order in which the patterns were added)                             *)
ExtractUsesFirstInInsertionOrder ==
    /\ Searched =>
          \A i, j \in 1..Len(last.yields) :
              i < j => DfsBefore(last.yields[i].node, last.yields[j].node)
    /\ ExtractedByRootSearch =>
          \/ /\ last.result.keywords = <<>>
             /\ \A i \in 1..Len(root_search) :
                   /\ HasKey(keyword_trie_dict, root_search[i].node, KEYWORD)
                   => \E j \in 1..Len(root_search) :
                         /\ DfsBefore(root_search[j].node, root_search[i].node)
                         /\ ~HasKey(keyword_trie_dict, root_search[j].node,
                                    KEYWORD)
          \/ \E i \in 1..Len(root_search) :
                /\ \A j \in 1..Len(root_search) :
                      j # i => DfsBefore(root_search[i].node,
                                         root_search[j].node)
                /\ HasKey(keyword_trie_dict, root_search[i].node, KEYWORD)
                /\ last.result.keywords =
                      << <<keyword_trie_dict[root_search[i].node].clean_name,
                           0, Len(last.sentence)>> >>

(* an extraction that used the first yield of the search although a later  *)
(* yield has a strictly smaller cost, and whose result is another one when *)
(* the same patterns are added in another order                            *)
ExtractUsesFirstInInsertionOrderWitness ==
    /\ ExtractedByRootSearch
    /\ last.result.keywords # <<>>
    /\ \E j \in 2..Len(root_search) : root_search[j].cost < root_search[1].cost
    /\ \E o \in Orders(DOMAIN registered) :
          extract_keywords_in(trie_of(o, Cardinality(DOMAIN registered)),
                              non_word_boundaries, case_sensitive,
                              last.sentence, TRUE, last.max_cost).keywords
              # last.result.keywords

(* C28: every (node, cost, depth) that levensthein(word, max_cost,         *)
(* start_node) yields, for every word, the empty word included, has cost   *)
(* equal to the Levenshtein distance between word and the string spelled   *)
(* by the path from start_node to node, cost <= max_cost, and depth equal  *)
(* to the length of that path                                              *)
YieldsCostIsDistance ==
    Searched =>
        \A i \in 1..Len(last.yields) :
            /\ last.yields[i].node \in Below
            /\ last.yields[i].cost =
                   levenshtein_distance(last.word, spelled(last.yields[i].node))
            /\ last.yields[i].cost <= last.max_cost
            /\ last.yields[i].depth = Len(spelled(last.yields[i].node))

(* curr_cost of the call with frame f, and the number of fuzzy searches it *)
(* has made: inside the lookahead loop the values are those of la          *)
remaining(f) ==
    IF f.pc = "lookahead" THEN f.la.curr_cost ELSE f.st.curr_cost

searches(f) ==
    IF f.pc = "lookahead" THEN f.la.fuzzy_calls ELSE f.st.fuzzy_calls

(* the cost reported by the fuzzy search that the next iteration of the    *)
(* call makes when it makes one: that of the first yield, 0 when there is  *)
(* none                                                                    *)
reported_cost(f) ==
    LET from  == IF f.pc = "lookahead" THEN f.la.idy ELSE f.st.idx
        node  == IF f.pc = "lookahead" THEN f.la.current_dict_continued
                 ELSE f.st.current_dict
        found == levensthein(keyword_trie_dict,
                             get_next_word(non_word_boundaries, f.sentence, from),
                             remaining(f), node)
    IN  IF found = <<>> THEN 0 ELSE found[1].cost

(* the step is an iteration of a running call *)
Iterates ==
    /\ Running
    /\ frame'.pc # "idle"
    /\ frame' # frame

(* the iteration makes a fuzzy search; it appends a match; it appends the  *)
(* match of the branch of the boundary characters (lines 598-605), the     *)
(* other append being the one made at the end of the sentence (637-645)    *)
MakesFuzzySearch == Iterates /\ searches(frame') > searches(frame)

Emits ==
    /\ Iterates
    /\ Len(frame'.st.keywords_extracted) > Len(frame.st.keywords_extracted)

EmitsAtBoundary ==
    /\ Emits
    /\ \/ frame.pc = "lookahead"
       \/ frame.sentence[frame.st.idx + 1] \notin non_word_boundaries

(* 0 <= remaining <= k, and a fuzzy search is made only while remaining > 0 *)
BudgetInRange ==
    /\ [](frame.pc # "idle" => remaining(frame) \in 0..frame.max_cost)
    /\ [][MakesFuzzySearch => remaining(frame) > 0]_vars

(* the claim as stated: every emission restores the budget *)
BudgetRestoredByEveryEmission ==
    /\ BudgetInRange
    /\ [][MakesFuzzySearch /\ ~Emits =>
             remaining(frame') = remaining(frame) - reported_cost(frame)]_vars
    /\ [][Emits => remaining(frame') = frame.max_cost]_vars

(* C29: during a scan with max_cost = k the remaining budget is within     *)
(* 0..k; a fuzzy search is made only while it is positive and lowers it by *)
(* the cost the search reports (0 when it finds nothing); the emission of  *)
(* a match at a boundary character restores it to k; the emission made at  *)
(* the end of the sentence leaves it as it is, and the loop ends there     *)
BudgetRestoredByEmissionAtBoundary ==
    /\ BudgetInRange
    /\ [][MakesFuzzySearch /\ ~EmitsAtBoundary =>
             remaining(frame') = remaining(frame) - reported_cost(frame)]_vars
    /\ [][EmitsAtBoundary => remaining(frame') = frame.max_cost]_vars
    /\ [][Emits /\ ~EmitsAtBoundary =>
             /\ frame'.st.idx >= Len(frame.sentence)
             /\ ~MakesFuzzySearch => remaining(frame') = remaining(frame)]_vars

(* a match emitted at a boundary character after a fuzzy search that cost  *)
(* the whole budget: the budget is back at max_cost                        *)
BudgetRestoredByEmissionAtBoundaryWitness ==
    /\ frame.pc = "scan"
    /\ frame.st.idx < Len(frame.sentence)
    /\ frame.max_cost > 0
    /\ frame.st.fuzzy_calls > 0
    /\ frame.st.keywords_extracted # <<>>
    /\ frame.st.curr_cost = frame.max_cost
    /\ LET m == frame.st.keywords_extracted[1]
       IN  fold(m[1]) # Slice(frame.sentence, m[2], m[3])

(* the 0-based index, in the text given to the call, of the character      *)
(* whose lower-case form holds the 0-based position j of the lower-cased   *)
(* text                                                                    *)
origin(j) ==
    CHOOSE i \in 0..(Len(frame.sentence_arg) - 1) :
        /\ Len(lower(SubSeq(frame.sentence_arg, 1, i))) <= j
        /\ j < Len(lower(SubSeq(frame.sentence_arg, 1, i + 1)))

(* C30: get_index_mapping returns None exactly when the matcher is         *)
(* case-sensitive or the text holds no U+0130, and the spans reported are  *)
(* then the offsets of the scan; otherwise it returns a non-decreasing     *)
(* list as long as the lower-cased text whose entry j is the index in the  *)
(* original text of the character that produced position j (the index of   *)
(* each U+0130 standing twice)                                             *)
IndexMappingGivesOriginalIndices ==
    frame.pc # "idle" =>
        LET m == frame.index_mapping
        IN  /\ m = None <=>
                  \/ case_sensitive
                  \/ LATIN_CAPITAL_LETTER_I_WITH_DOT_ABOVE
                        \notin Range(frame.sentence_arg)
            /\ m = None /\ Done /\ frame.span_info =>
                  frame.result.keywords = scan_matches
            /\ m # None =>
                  /\ frame.sentence = lower(frame.sentence_arg)
                  /\ Len(m) = Len(frame.sentence)
                  /\ \A j, k \in 1..Len(m) : j <= k => m[j] <= m[k]
                  /\ \A j \in 1..Len(m) : m[j] = origin(j - 1)
                  /\ \A i \in 1..Len(frame.sentence_arg) :
                        Cardinality({j \in 1..Len(m) : m[j] = i - 1}) =
                            IF frame.sentence_arg[i]
                                  = LATIN_CAPITAL_LETTER_I_WITH_DOT_ABOVE
                            THEN 2 ELSE 1

(* a call on a text with a U+0130 between two other characters has         *)
(* returned a match that lies after the U+0130                             *)
IndexMappingGivesOriginalIndicesWitness ==
    /\ Done
    /\ frame.span_info
    /\ ~case_sensitive
    /\ Len(frame.sentence_arg) = 3
    /\ frame.sentence_arg[2] = LATIN_CAPITAL_LETTER_I_WITH_DOT_ABOVE
    /\ frame.sentence_arg[1] # LATIN_CAPITAL_LETTER_I_WITH_DOT_ABOVE
    /\ frame.index_mapping = <<0, 1, 1, 2>>
    /\ frame.result.keywords # <<>>

(* C31: after any sequence of adds and removes the trie has no dead        *)
(* branch: every dict other than the root holds "_keyword_" or a sub-dict, *)
(* every dict lies on the path of a terminal one, the keys of a dict are   *)
(* exactly its sub-dicts (and "_keyword_"), and once every registered      *)
(* pattern has been removed the root is empty                              *)
NoDeadBranch ==
    LET d == keyword_trie_dict
    IN  /\ \A p \in DOMAIN d \ {Root} :
              /\ d[p].keys # <<>>
              /\ SubSeq(p, 1, Len(p) - 1) \in DOMAIN d
              /\ HasKey(d, SubSeq(p, 1, Len(p) - 1), p[Len(p)])
              /\ \E t \in TerminalDicts : IsPrefix(p, t)
        /\ \A p \in DOMAIN d :
              \A key \in Range(d[p].keys) \ {KEYWORD} : Append(p, key) \in DOMAIN d
        /\ DOMAIN registered = {} =>
              /\ DOMAIN d = {Root}
              /\ d[Root].keys = <<>>
              /\ terms_in_trie = 0

(* of two registered patterns with a common first character one has been   *)
(* removed: its last dict is pruned, the dict they share is kept           *)
NoDeadBranchWitness ==
    /\ last.op = "remove_keyword"
    /\ last.status
    /\ last.case = "registered sibling"
    /\ terms_in_trie = 1
    /\ Cardinality(DOMAIN keyword_trie_dict) = 3

(* C32: on any trie reached by adds and removes, add(p, v) followed by     *)
(* remove(p), for a non-empty pattern p that is not registered, leaves the *)
(* trie (its dicts, their keys and every stored value) and the count       *)
(* exactly as they were before the add                                     *)
AddThenRemoveRestores ==
    [][last'.op = "add_keyword, remove_keyword" =>
          /\ keyword_trie_dict' = keyword_trie_dict
          /\ terms_in_trie' = terms_in_trie
          /\ last'.remove_status = last'.add_status]_vars

(* a pattern that is a proper prefix of a registered one has been added    *)
(* and removed, a second registered pattern standing beside them           *)
AddThenRemoveRestoresWitness ==
    /\ last.op = "add_keyword, remove_keyword"
    /\ last.add_status
    /\ last.remove_status
    /\ last.case = "prefix"
    /\ terms_in_trie = 2

(* C33: a call extract_keywords(p, span_info=True, max_cost=0) whose text  *)
(* is a registered pattern p, whatever else is registered, returns exactly *)
(* one match: the value of p with the span (0, len(p))                     *)
ExtractOfPatternReturnsIt ==
    /\ frame.pc = "done"
    /\ frame.span_info
    /\ frame.max_cost = 0
    /\ fold(frame.sentence_arg) \in DOMAIN registered
    => frame.result.keywords =
          << <<registered[fold(frame.sentence_arg)], 0,
               Len(frame.sentence_arg)>> >>

(* the text "a " has been extracted while "a " and its prefix "a" are both *)
(* registered                                                              *)
ExtractOfPatternReturnsItWitness ==
    /\ frame.pc = "done"
    /\ frame.span_info
    /\ frame.max_cost = 0
    /\ frame.sentence_arg = <<"a", " ">>
    /\ {<<"a">>, <<"a", " ">>} \subseteq DOMAIN registered
    /\ frame.result.keywords = << <<(<<"a", " ">>), 0, 2>> >>

(* C34: every tuple (value, start, end) that a call in span mode has        *)
(* collected or returns, whatever the text, the trie and max_cost, has     *)
(* 0 <= start < end <= len(original text)                                  *)
SpansLieInOriginalText ==
    (frame.pc # "idle" /\ frame.span_info) =>
        \A i \in 1..Len(frame.st.keywords_extracted) :
            LET m == frame.st.keywords_extracted[i]
            IN  /\ 0 <= m[2]
                /\ m[2] < m[3]
                /\ m[3] <= Len(frame.sentence_arg)

(* a call on a text containing U+0130, lower-cased to a longer sentence,   *)
(* has made a fuzzy search and returns a match that ends where the text    *)
(* ends                                                                    *)
SpansLieInOriginalTextWitness ==
    /\ frame.pc = "done"
    /\ frame.span_info
    /\ frame.max_cost > 0
    /\ frame.st.fuzzy_calls > 0
    /\ Len(frame.sentence) > Len(frame.sentence_arg)
    /\ \E i \in 1..Len(frame.result.keywords) :
          frame.result.keywords[i][3] = Len(frame.sentence_arg)

(* the iteration leaves the cursor on the root without having appended a   *)
(* match, and the outer loop goes on                                       *)
AbandonsCandidate ==
    /\ Iterates
    /\ ~Emits
    /\ frame'.pc = "scan"
    /\ frame'.st.current_dict = Root
    /\ frame'.st.idx < Len(frame.sentence)

(* C35: with max_cost = k > 0, whenever an iteration abandons a candidate  *)
(* without emitting a match and leaves the cursor on the root, the         *)
(* remaining budget is k again: the next candidate starts with the full    *)
(* budget                                                                  *)
FullBudgetAtEveryCandidateStart ==
    [][AbandonsCandidate /\ frame.max_cost > 0 =>
          frame'.st.curr_cost = frame.max_cost]_vars

(* the logos a finished call of filter_logos returns *)
returned_logos == frame.filtered

(* C36: filter_logos, given logos sorted by descending score, returns      *)
(* (original index, logo) pairs in increasing index order, every returned  *)
(* logo with score >= score_threshold, and no two returned logos with      *)
(* IoU >= iou_threshold: of two such logos the one with the higher index   *)
(* is left out                                                             *)
FilterLogosKeepsDisjointLogos ==
    frame.pc = "returned" =>
        /\ \A n \in 1..Len(returned_logos) :
              /\ returned_logos[n][1] \in 0..(Len(frame.logos) - 1)
              /\ returned_logos[n][2] = frame.logos[returned_logos[n][1] + 1]
              /\ returned_logos[n][2].score >= frame.score_threshold
        /\ \A m, n \in 1..Len(returned_logos) :
              m < n =>
                 /\ returned_logos[m][1] < returned_logos[n][1]
                 /\ LET iou == compute_iou(returned_logos[m][2].bounding_box,
                                           returned_logos[n][2].bounding_box)
                    IN  ~iou.error => ~iou_at_least(iou, frame.iou_threshold)

(* the outer loop of a call with max_cost = 0 is about to run an iteration *)
AtIterationStart ==
    /\ frame.pc = "scan"
    /\ frame.max_cost = 0
    /\ frame.st.idx < Len(frame.sentence)

(* the cursor is the dict reached from the root by the scanned text from   *)
(* the candidate start up to the current offset; the candidate start is 0  *)
(* or follows a boundary character                                         *)
CursorSpellsCandidate ==
    AtIterationStart =>
        /\ frame.st.sequence_start_pos \in 0..frame.st.idx
        /\ frame.st.current_dict =
              Slice(frame.sentence, frame.st.sequence_start_pos, frame.st.idx)
        /\ frame.st.current_dict \in DOMAIN keyword_trie_dict
        /\ \/ frame.st.sequence_start_pos = 0
           \/ frame.sentence[frame.st.sequence_start_pos]
                 \notin non_word_boundaries

(* an iteration that leaves the cursor on the root leaves the candidate    *)
(* start on the offset of the next iteration                               *)
ResetMovesCandidateStart ==
    [][(/\ Iterates
        /\ frame.max_cost = 0
        /\ frame'.pc = "scan"
        /\ frame'.st.current_dict = Root)
       => frame'.st.sequence_start_pos = frame'.st.idx]_vars

(* C37: with max_cost = 0, at the start of every iteration of the outer    *)
(* loop current_dict is the dict reached from the root by the lower-cased  *)
(* text between sequence_start_pos and idx, and sequence_start_pos is 0 or *)
(* one past a boundary character; every reset of current_dict to the root  *)
(* comes with sequence_start_pos moved to the next offset                  *)
CursorTracksCandidate ==
    /\ []CursorSpellsCandidate
    /\ ResetMovesCandidateStart

(* an iteration starts inside a candidate that began after a boundary      *)
(* character, a match having been emitted before it                        *)
CursorTracksCandidateWitness ==
    /\ AtIterationStart
    /\ frame.st.sequence_start_pos > 0
    /\ frame.st.idx > frame.st.sequence_start_pos
    /\ frame.st.current_dict # Root
    /\ frame.st.keywords_extracted # <<>>

====
